---- MODULE Spec2Model ----
(***************************************************************************)
(* Persona classification of bicycle-rental trips                          *)
(* (src/utils/persona_generator.py) and the marketing statistics of a      *)
(* persona (src/utils/persona_marketing_stats.py).                         *)
(*                                                                         *)
(* The specifications; SpecStats, SpecOpportunity, SpecTwice, SpecClassify, *)
(* SpecDashboard and SpecFootprint are described further down:             *)
(*   SpecRow  one row handed to assign_persona_rule_based, the row drawn   *)
(*            from a domain that covers every threshold of the cascade;    *)
(*   Spec     a DataFrame built row by row and then classified by          *)
(*            add_persona_column (validation, rule-based strategy,         *)
(*            clustering strategy with its fall-back).                     *)
(*                                                                         *)
(* Values.  The numeric columns are float columns: a cell holds a number   *)
(* or NaN.  Python's None is what row.get(col, None) yields for a column   *)
(* the row does not have.  Durations are minutes in fixed point: a         *)
(* duration of m minutes is the integer m * MinuteTicks.                   *)
(***************************************************************************)
EXTENDS Integers, Sequences, FiniteSets, TLC

VARIABLES row, persona, used, df, result, earlier, generator, session, layer

vars == <<row, persona, used, df, result, earlier, generator, session, layer>>

\* ------------------------------------------------------------------ bounds

\* Fixed-point resolution of a duration: ticks per minute.
MinuteTicks == 2

\* Largest number of rows of a DataFrame.
MaxRows == 6

\* Largest n_clusters handed to add_persona_column.
MaxK == 6

\* ------------------------------------------------------------------ values

\* A numeric cell holding the number n.
Num(n) == [t |-> "num", v |-> n]

\* float('nan'): the missing value of a numeric column.
NaN == [t |-> "nan", v |-> 0]

\* Python's None: the default of row.get for an absent column.
None == [t |-> "none", v |-> 0]

\* The marker of a column the row (or DataFrame) does not have.
Absent == [t |-> "absent", v |-> 0]

IsNum(x) == x.t = "num"

\* Python truth value of a flag: 0 and None are false, NaN and 1 are true.
Truthy(x) == (x.t = "num" /\ x.v # 0) \/ x.t = "nan"

\* Python comparisons: any comparison with NaN is False.
Lt(x, n) == IsNum(x) /\ x.v < n

Le(x, n) == IsNum(x) /\ x.v <= n

Gt(x, n) == IsNum(x) /\ x.v > n

Ge(x, n) == IsNum(x) /\ x.v >= n

\* a <= x <= b
Between(a, x, b) == IsNum(x) /\ a <= x.v /\ x.v <= b

\* m minutes in ticks.
Minutes(m) == m * MinuteTicks

\* x / 60 and x / 60000 of a raw duration (seconds, milliseconds), in ticks.
DivBy(x, d) == IF IsNum(x) THEN Num((x.v * MinuteTicks) \div d) ELSE x

\* start_date values: a parseable timestamp (hour, weekday 0 = Monday), NaT,
\* or a value pd.to_datetime cannot parse.
Timestamp(h, w) == [t |-> "ts", hour |-> h, weekday |-> w]

NaT == [t |-> "nat", hour |-> 0, weekday |-> 0]

BadDate == [t |-> "bad", hour |-> 0, weekday |-> 0]

NoDate == [t |-> "absent", hour |-> 0, weekday |-> 0]

\* ------------------------------------------------------------- row access

\* 'col' in row
Has(r, col) == r[col].t # "absent"

\* row.get(col, default)
Get(r, col, default) == IF Has(r, col) THEN r[col] ELSE default

\* No row handed over yet, and no values extracted yet.
NoRow ==
    [rental_id |-> 0, start_date |-> NoDate, duration_minutes |-> Absent,
     duration |-> Absent, duration_ms |-> Absent, hour |-> Absent,
     is_weekend |-> Absent, is_weekday |-> Absent]

NoUse == [duration |-> None, hour |-> None, is_weekend |-> None, is_weekday |-> None]

\* No station list handed to the map yet.
NoLayer == [station_data |-> <<>>, status |-> "none", threshold |-> 0, shown |-> {}]

\* No call recorded yet, and no PersonaGenerator constructed yet.
NoCalls == <<>>

NoGenerator == [n_clusters |-> 0, scaler |-> <<>>, kmeans |-> "None"]

\* ------------------------------------------------ assign_persona_rule_based

\* pd.to_datetime(row['start_date']).hour inside try/except: None on failure,
\* nan for NaT.
HourFromStart(s) ==
    CASE s.t = "ts"  -> Num(s.hour)
      [] s.t = "nat" -> NaN
      [] OTHER       -> None

\* 1 if weekday >= 5 else 0, weekday of NaT being nan; 0 when parsing fails.
WeekendFromStart(s) == IF s.t = "ts" /\ s.weekday >= 5 THEN Num(1) ELSE Num(0)

\* 1 if weekday < 5 else 0, weekday of NaT being nan; 0 when parsing fails.
WeekdayFromStart(s) == IF s.t = "ts" /\ s.weekday < 5 THEN Num(1) ELSE Num(0)

\* The values the cascade works on: extraction and derivation.
ExtractRow(r) ==
    LET duration0 == Get(r, "duration_minutes", None)
        hour0     == Get(r, "hour", None)
        weekend0  == Get(r, "is_weekend", Num(0))
        weekday0  == Get(r, "is_weekday", Num(0))
        hour1     == IF hour0 = None /\ Has(r, "start_date")
                     THEN HourFromStart(r.start_date) ELSE hour0
        derive    == weekend0 = Num(0) /\ weekday0 = Num(0) /\ Has(r, "start_date")
        duration1 == IF duration0 = None
                     THEN IF Has(r, "duration") THEN DivBy(r.duration, 60)
                          ELSE IF Has(r, "duration_ms") THEN DivBy(r.duration_ms, 60000)
                          ELSE None
                     ELSE duration0
    IN  [duration   |-> duration1,
         hour       |-> hour1,
         is_weekend |-> IF derive THEN WeekendFromStart(r.start_date) ELSE weekend0,
         is_weekday |-> IF derive THEN WeekdayFromStart(r.start_date) ELSE weekday0]

\* Mutant: the chain ends in an elif on the afternoon hours instead of an else,
\* so a row that matches no branch falls off the end of the function.
DefaultFallbackNoElse(hour, is_weekend) ==
    IF Truthy(is_weekend) THEN "Weekend Explorer"
    ELSE IF Lt(hour, 12) THEN "Morning Commuter"
    ELSE IF Ge(hour, 16) THEN "Evening Commuter"
    ELSE IF Between(12, hour, 15) THEN "Fitness"
    ELSE "null"

\* Mutant: the else-chain asks for the hour before the weekend flag.
DefaultFallbackHourFirst(hour, is_weekend) ==
    IF Lt(hour, 12) THEN "Morning Commuter"
    ELSE IF Ge(hour, 16) THEN "Evening Commuter"
    ELSE IF Truthy(is_weekend) THEN "Weekend Explorer"
    ELSE "Fitness"

\* The final else-chain of the cascade.
DefaultFallback(hour, is_weekend) ==
    IF Truthy(is_weekend) THEN "Weekend Explorer"
    ELSE IF Lt(hour, 12) THEN "Morning Commuter"
    ELSE IF Ge(hour, 16) THEN "Evening Commuter"
    ELSE "Fitness"

\* The label of a rule group when none of its rules matches.
NoMatch == "no match"

\* Mutant: the Fitness rule asks for at least 55 minutes.
PrimaryRulesNarrowFitness(duration, hour, is_weekend, is_weekday) ==
    IF Gt(duration, Minutes(90)) THEN "Tourist/Long Leisure"
    ELSE IF Truthy(is_weekend) /\ Between(Minutes(30), duration, Minutes(70))
            /\ Between(12, hour, 18) THEN "Weekend Explorer"
    ELSE IF Truthy(is_weekday) /\ Between(Minutes(55), duration, Minutes(80))
            /\ Between(14, hour, 19) THEN "Fitness"
    ELSE IF Truthy(is_weekday) /\ Lt(duration, Minutes(30))
            /\ Between(16, hour, 21) THEN "Evening Commuter"
    ELSE IF Truthy(is_weekday) /\ Lt(duration, Minutes(30))
            /\ Between(6, hour, 11) THEN "Morning Commuter"
    ELSE NoMatch

\* The five persona rules, in the order of the if-chain.
PrimaryRules(duration, hour, is_weekend, is_weekday) ==
    IF Gt(duration, Minutes(90)) THEN "Tourist/Long Leisure"
    ELSE IF Truthy(is_weekend) /\ Between(Minutes(30), duration, Minutes(70))
            /\ Between(12, hour, 18) THEN "Weekend Explorer"
    ELSE IF Truthy(is_weekday) /\ Between(Minutes(45), duration, Minutes(80))
            /\ Between(14, hour, 19) THEN "Fitness"
    ELSE IF Truthy(is_weekday) /\ Lt(duration, Minutes(30))
            /\ Between(16, hour, 21) THEN "Evening Commuter"
    ELSE IF Truthy(is_weekday) /\ Lt(duration, Minutes(30))
            /\ Between(6, hour, 11) THEN "Morning Commuter"
    ELSE NoMatch

\* Mutant: the long-weekend-ride test is made before the weekend-morning test.
EdgeCaseRulesLongWeekendFirst(duration, hour, is_weekend, is_weekday) ==
    IF Truthy(is_weekend) /\ Between(Minutes(60), duration, Minutes(90))
    THEN "Tourist/Long Leisure"
    ELSE IF Truthy(is_weekend) /\ Between(Minutes(20), duration, Minutes(60))
            /\ Between(7, hour, 12) THEN "Weekend Explorer"
    ELSE IF Truthy(is_weekday) /\ Lt(duration, Minutes(35))
            /\ (Ge(hour, 22) \/ Le(hour, 2)) THEN "Evening Commuter"
    ELSE IF Truthy(is_weekday) /\ Between(Minutes(30), duration, Minutes(70))
            /\ Between(5, hour, 8) THEN "Fitness"
    ELSE NoMatch

\* The additional rules for edge cases, in the order of the if-chain.
EdgeCaseRules(duration, hour, is_weekend, is_weekday) ==
    IF Truthy(is_weekend) /\ Between(Minutes(20), duration, Minutes(60))
       /\ Between(7, hour, 12) THEN "Weekend Explorer"
    ELSE IF Truthy(is_weekday) /\ Lt(duration, Minutes(35))
            /\ (Ge(hour, 22) \/ Le(hour, 2)) THEN "Evening Commuter"
    ELSE IF Truthy(is_weekday) /\ Between(Minutes(30), duration, Minutes(70))
            /\ Between(5, hour, 8) THEN "Fitness"
    ELSE IF Truthy(is_weekend) /\ Between(Minutes(60), duration, Minutes(90))
         THEN "Tourist/Long Leisure"
    ELSE NoMatch

\* Mutant: General User only when both the duration and the hour are None.
MissingValuesBoth(duration, hour) == duration = None /\ hour = None

\* if duration is None or hour is None
MissingValues(duration, hour) == duration = None \/ hour = None

\* The whole if-chain on (duration, hour, is_weekend, is_weekday): the first
\* return that is reached.
Cascade(duration, hour, is_weekend, is_weekday) ==
    LET primary == PrimaryRules(duration, hour, is_weekend, is_weekday)
        edge    == EdgeCaseRules(duration, hour, is_weekend, is_weekday)
    IN  IF MissingValues(duration, hour) THEN "General User"
        ELSE IF primary # NoMatch THEN primary
        ELSE IF edge # NoMatch THEN edge
        ELSE DefaultFallback(hour, is_weekend)

assign_persona_rule_based(r) ==
    LET x == ExtractRow(r)
    IN  Cascade(x.duration, x.hour, x.is_weekend, x.is_weekday)

\* ------------------------------------------------------------- DataFrames

\* The columns a DataFrame may or may not have.
OptionalColumns == {"start_date", "duration_minutes", "duration", "duration_ms",
                    "hour", "is_weekend", "is_weekday"}

\* df is None.
NoneFrame == [kind |-> "None", columns |-> {}, rows |-> <<>>]

\* A DataFrame with the given columns (besides rental_id) and rows.
Frame(cols, rws) == [kind |-> "frame", columns |-> cols, rows |-> rws]

\* The row of a DataFrame that has only the columns cols.
Project(r, cols) ==
    [c \in DOMAIN r |->
        IF c \in cols \/ c = "rental_id" THEN r[c]
        ELSE IF c = "start_date" THEN NoDate ELSE Absent]

\* x * n for a cell x.
Times(x, n) == IF IsNum(x) THEN Num(x.v * n) ELSE x

\* A trip: rental_id, start_date, the duration (a cell in whole minutes) as
\* minutes, seconds and milliseconds, hour and the two day flags.
Trip(id, start, minutes, hr, weekend, weekday) ==
    [rental_id |-> id, start_date |-> start,
     duration_minutes |-> Times(minutes, MinuteTicks),
     duration |-> Times(minutes, 60),
     duration_ms |-> Times(minutes, 60000),
     hour |-> hr, is_weekend |-> Num(weekend), is_weekday |-> Num(weekday)]

\* The trips a DataFrame is built from.  Trip 5 carries day flags that
\* disagree with its start date (a Sunday flagged as a weekday); trip 6 has
\* an unparseable start date and no duration or hour value; trip 7 repeats
\* the features of trip 1.
SampleTrips ==
    {Trip(1, Timestamp(8, 0), Num(10), Num(8), 0, 1),
     Trip(2, Timestamp(13, 1), Num(95), Num(13), 0, 1),
     Trip(3, Timestamp(16, 2), Num(50), Num(16), 0, 1),
     Trip(4, Timestamp(13, 5), Num(40), Num(13), 1, 0),
     Trip(5, Timestamp(17, 6), Num(10), Num(17), 0, 1),
     Trip(6, BadDate, NaN, NaN, 0, 0),
     Trip(7, Timestamp(8, 0), Num(10), Num(8), 0, 1)}

\* ---------------------------------------------------------------- results

NoResult == [status |-> "none", strategy |-> "none", k |-> 0, persona |-> <<>>,
             cluster |-> <<>>, logged_error |-> FALSE, flags |-> <<>>]

\* The dashboard session before the first run of the script: st.session_state
\* holds nothing, which the first run turns into df = None (held as
\* NoResult) and last_method = None.  'source' is the cleaned DataFrame the
\* stored dataset was labelled from, 'analysed' tells whether the run reached
\* compute_marketing_stats, and 'cleared' whether the method changed and no
\* load has succeeded since.
NoSession ==
    [df |-> NoResult, source |-> NoneFrame, last_method |-> "None",
     persona_method |-> "None", analysed |-> FALSE, cleared |-> FALSE]

\* raise ValueError(...) out of add_persona_column.
InputError(strategy, k) ==
    [status |-> "InputError", strategy |-> strategy, k |-> k, persona |-> <<>>,
     cluster |-> <<>>, logged_error |-> FALSE, flags |-> <<>>]

\* df_result with its persona column; flags are the day flags the labelling
\* worked on, row by row.
Labelled(strategy, k, personas, clusters, logged, flags) ==
    [status |-> "ok", strategy |-> strategy, k |-> k, persona |-> personas,
     cluster |-> clusters, logged_error |-> logged, flags |-> flags]

\* df.apply(assign_persona_rule_based, axis=1)
ApplyRuleBased(d) == [i \in 1..Len(d.rows) |-> assign_persona_rule_based(d.rows[i])]

\* The day flags assign_persona_rule_based works on, row by row.
RuleFlags(d) ==
    [i \in 1..Len(d.rows) |->
        <<ExtractRow(d.rows[i]).is_weekend, ExtractRow(d.rows[i]).is_weekday>>]

\* ------------------------------------------------ assign_persona_clustering

\* pd.to_datetime(df['start_date'], errors='coerce').dt.hour
CoerceHour(s) == IF s.t = "ts" THEN Num(s.hour) ELSE NaN

\* (start_datetime.dt.weekday >= 5).astype(int)
CoerceWeekend(s) == IF s.t = "ts" /\ s.weekday >= 5 THEN Num(1) ELSE Num(0)

\* (start_datetime.dt.weekday < 5).astype(int)
CoerceWeekday(s) == IF s.t = "ts" /\ s.weekday < 5 THEN Num(1) ELSE Num(0)

\* The columns of df_work after the auto-creation.
WorkColumns(d) ==
    d.columns
    \cup (IF "start_date" \in d.columns THEN {"hour", "is_weekend", "is_weekday"} ELSE {})
    \cup (IF {"duration", "duration_ms"} \cap d.columns # {}
          THEN {"duration_minutes"} ELSE {})

\* No duration column found: the first raise of the try block.
NoDurationColumn(d) == {"duration_minutes", "duration", "duration_ms"} \cap d.columns = {}

RequiredColumns == {"duration_minutes", "hour", "is_weekend", "is_weekday"}

\* Missing required columns after auto-creation: the second raise.
MissingColumns(d) == RequiredColumns \ WorkColumns(d)

\* One row of df_work[required_columns].
FeatureRow(d, r) ==
    [duration_minutes |->
        IF "duration_minutes" \in d.columns THEN r.duration_minutes
        ELSE IF "duration" \in d.columns THEN DivBy(r.duration, 60)
        ELSE DivBy(r.duration_ms, 60000),
     hour |-> IF "hour" \in d.columns THEN r.hour ELSE CoerceHour(r.start_date),
     is_weekend |->
        IF "is_weekend" \in d.columns THEN r.is_weekend ELSE CoerceWeekend(r.start_date),
     is_weekday |->
        IF "is_weekday" \in d.columns THEN r.is_weekday ELSE CoerceWeekday(r.start_date)]

\* features = df_work[required_columns]
Features(d) == [i \in 1..Len(d.rows) |-> FeatureRow(d, d.rows[i])]

RECURSIVE SumOf(_, _, _)
\* The sum of the numbers of column c in rows 1..n of F.
SumOf(F, c, n) ==
    IF n = 0 THEN 0
    ELSE SumOf(F, c, n - 1) + (IF IsNum(F[n][c]) THEN F[n][c].v ELSE 0)

\* The number of non-NaN cells of column c.
CountOf(F, c) == Cardinality({i \in 1..Len(F) : IsNum(F[i][c])})

\* features.fillna(features.mean()): a NaN cell becomes the mean of the
\* column's numbers, and stays NaN when the column has none.  Every cell of
\* column c is held as a multiple of 1 / CountOf(F, c), so that the mean
\* sum / count is exact.
FillNaMean(F) ==
    [i \in 1..Len(F) |->
        [c \in RequiredColumns |->
            IF IsNum(F[i][c]) THEN Num(F[i][c].v * CountOf(F, c))
            ELSE IF CountOf(F, c) > 0 THEN Num(SumOf(F, c, Len(F)))
            ELSE NaN]]

\* KMeans(n_clusters=k).fit_predict(X) raises: fewer samples than clusters,
\* or a NaN in X.
KMeansRaises(X, k) ==
    \/ Len(X) < k
    \/ \E i \in 1..Len(X) : \E c \in RequiredColumns : ~IsNum(X[i][c])

\* The distinct points of X.  StandardScaler maps every column by
\* x -> (x - mean) / std, which keeps distinct rows distinct.
DistinctPoints(X) == {X[i] : i \in 1..Len(X)}

\* The labellings fit_predict may return: one cluster index per row, equal
\* points in the same cluster, and the clusters 0..min(d, k)-1 in use, d the
\* number of distinct points (k-means++ seeds with distinct points while any
\* is left; with d < k it finds d clusters).
KMeansLabellings(X, k) ==
    LET pts == DistinctPoints(X)
        m   == IF Cardinality(pts) < k THEN Cardinality(pts) ELSE k
        fs  == {f \in [pts -> 0..(m - 1)] : \A c \in 0..(m - 1) : \E q \in pts : f[q] = c}
    IN  {[i \in 1..Len(X) |-> f[X[i]]] : f \in fs}

\* Mutant: cluster 4 is named as in the docstring, Fitness/Casual Long.
FixedPersonaMappingCasualLong(cluster_id) ==
    CASE cluster_id = 0 -> "Evening Commuter"
      [] cluster_id = 1 -> "Weekend Explorer"
      [] cluster_id = 2 -> "Morning Commuter"
      [] cluster_id = 3 -> "Tourist/Long Leisure"
      [] cluster_id = 4 -> "Fitness/Casual Long"

\* Mutant: the names of the clusters 0 and 2 have changed places.
FixedPersonaMappingSwapped(cluster_id) ==
    CASE cluster_id = 0 -> "Morning Commuter"
      [] cluster_id = 1 -> "Weekend Explorer"
      [] cluster_id = 2 -> "Evening Commuter"
      [] cluster_id = 3 -> "Tourist/Long Leisure"
      [] cluster_id = 4 -> "Fitness"

\* The fixed mapping of cluster numbers to persona names.
FixedPersonaMapping(cluster_id) ==
    CASE cluster_id = 0 -> "Evening Commuter"
      [] cluster_id = 1 -> "Weekend Explorer"
      [] cluster_id = 2 -> "Morning Commuter"
      [] cluster_id = 3 -> "Tourist/Long Leisure"
      [] cluster_id = 4 -> "Fitness"

\* Mutant: the membership test misses the last key of the mapping.
GeneratePersonaNameOffByOne(cluster_id) ==
    IF cluster_id \in 0..3 THEN FixedPersonaMapping(cluster_id)
    ELSE "Cluster_" \o ToString(cluster_id)

\* persona_names[cluster_id] for cluster_id in range(n_clusters)
GeneratePersonaName(cluster_id) ==
    IF cluster_id \in 0..4 THEN FixedPersonaMapping(cluster_id)
    ELSE "Cluster_" \o ToString(cluster_id)

\* Mutant: the except branch logs the error and raises it again.
ClusteringFallbackReraise(d, k) ==
    [status |-> "ClusteringFailure", strategy |-> "clustering", k |-> k,
     persona |-> <<>>, cluster |-> <<>>, logged_error |-> TRUE, flags |-> <<>>]

\* The except branch: the error is logged and every row is labelled by the
\* rule-based strategy.
ClusteringFallback(d, k) ==
    Labelled("clustering", k, ApplyRuleBased(d), <<>>, TRUE, RuleFlags(d))

\* The day flags of the feature rows.
FeatureFlags(F) == [i \in 1..Len(F) |-> <<F[i].is_weekend, F[i].is_weekday>>]

\* The results assign_persona_clustering may return for df and n_clusters = k.
assign_persona_clustering(d, k) ==
    IF NoDurationColumn(d) \/ MissingColumns(d) # {} THEN {ClusteringFallback(d, k)}
    ELSE LET F == Features(d)
             X == FillNaMean(F)
         IN  IF KMeansRaises(X, k) THEN {ClusteringFallback(d, k)}
             ELSE {Labelled("clustering", k,
                            [i \in 1..Len(X) |-> GeneratePersonaName(labels[i])],
                            labels, FALSE, FeatureFlags(F)) :
                   labels \in KMeansLabellings(X, k)}

\* ------------------------------------------------------ add_persona_column

\* df is None or df.empty
IsEmpty(d) == d.kind = "None" \/ Len(d.rows) = 0

\* Mutant: the check of the start_date column is left out.
InvalidInputNoColumnCheck(d) == IsEmpty(d)

\* The two checks that raise ValueError before any labelling.
InvalidInput(d) == IsEmpty(d) \/ "start_date" \notin d.columns

\* The results add_persona_column(df, use_clustering, n_clusters) may give.
add_persona_column(d, use_clustering, n_clusters) ==
    IF InvalidInput(d)
    THEN {InputError(IF use_clustering THEN "clustering" ELSE "rule_based", n_clusters)}
    ELSE IF use_clustering THEN assign_persona_clustering(d, n_clusters)
    ELSE {Labelled("rule_based", n_clusters, ApplyRuleBased(d), <<>>, FALSE, RuleFlags(d))}

\* The default n_clusters.
DefaultK == 5

\* --------------------------------------------------- Spec: DataFrame level

\* The column sets of a DataFrame: with or without start_date and hour, one
\* duration source or none, any of the two day flags.
ColumnSets ==
    {dates \cup durations \cup hours \cup flags :
        dates \in {{}, {"start_date"}},
        durations \in {{}, {"duration_minutes"}, {"duration"}, {"duration_ms"}},
        hours \in {{}, {"hour"}},
        flags \in SUBSET {"is_weekend", "is_weekday"}}

Init ==
    /\ df \in {NoneFrame} \cup {Frame(cols, <<>>) : cols \in ColumnSets}
    /\ result = NoResult
    /\ row = NoRow
    /\ persona = "pending"
    /\ used = NoUse
    /\ earlier = NoCalls
    /\ generator = NoGenerator
    /\ session = NoSession
    /\ layer = NoLayer

\* The caller loads one more trip into the DataFrame, in rental_id order.
AddRow ==
    /\ result.status = "none"
    /\ df.kind = "frame"
    /\ Len(df.rows) < MaxRows
    /\ \E r \in SampleTrips :
        /\ \A i \in 1..Len(df.rows) : df.rows[i].rental_id < r.rental_id
        /\ df' = [df EXCEPT !.rows = Append(@, Project(r, df.columns))]
    /\ UNCHANGED <<result, row, persona, used, earlier, generator, session, layer>>

\* add_persona_column(df, use_clustering=False)
ClassifyRuleBased ==
    /\ result.status = "none"
    /\ result' \in add_persona_column(df, FALSE, DefaultK)
    /\ UNCHANGED <<df, row, persona, used, earlier, generator, session, layer>>

\* add_persona_column(df, use_clustering=True, n_clusters=k)
ClassifyClustering ==
    /\ result.status = "none"
    /\ \E k \in 1..MaxK : result' \in add_persona_column(df, TRUE, k)
    /\ UNCHANGED <<df, row, persona, used, earlier, generator, session, layer>>

Next == AddRow \/ ClassifyRuleBased \/ ClassifyClustering

Spec == Init /\ [][Next]_vars

\* ------------------------------------------------------- SpecRow: one row

\* The thresholds of the cascade, in minutes.
Thresholds == {20, 30, 35, 45, 60, 70, 80, 90}

\* Durations on, just below and just above every threshold, in ticks.
DurationTicks == {Minutes(m) + e : m \in Thresholds, e \in {-1, 0, 1}} \cup {0}

DurationCells == {Absent, NaN} \cup {Num(d) : d \in DurationTicks}

\* Raw durations: 50 minutes in seconds, 10 minutes in milliseconds.
SecondsCells == {Absent, NaN, Num(3000)}

MillisCells == {Absent, Num(600000)}

HourCells == {Absent, NaN} \cup {Num(h) : h \in 0..23}

FlagCells == {Absent, Num(0), Num(1)}

StartDates == {NoDate, BadDate, NaT}
    \cup {Timestamp(h, w) : h \in {8, 13, 17}, w \in {4, 5, 6}}

\* Rows of the trip model: the two day flags, when both given, are not both 1.
RowInputs ==
    {r \in [rental_id : {1}, start_date : StartDates, duration_minutes : DurationCells,
            duration : SecondsCells, duration_ms : MillisCells, hour : HourCells,
            is_weekend : FlagCells, is_weekday : FlagCells] :
        ~(r.is_weekend = Num(1) /\ r.is_weekday = Num(1))}

InitRow ==
    /\ row \in RowInputs
    /\ persona = "pending"
    /\ used = NoUse
    /\ earlier = NoCalls
    /\ generator = NoGenerator
    /\ session = NoSession
    /\ layer = NoLayer
    /\ df = NoneFrame
    /\ result = NoResult

\* df.apply hands the row to assign_persona_rule_based.
ApplyRule ==
    /\ persona = "pending"
    /\ persona' = assign_persona_rule_based(row)
    /\ used' = ExtractRow(row)
    /\ UNCHANGED <<row, df, result, earlier, generator, session, layer>>

NextRow == ApplyRule

SpecRow == InitRow /\ [][NextRow]_vars

\* ------------------------------------------------- claims on a single row

\* The fixed persona set.
PersonaSet == {"Morning Commuter", "Evening Commuter", "Weekend Explorer", "Fitness",
               "Tourist/Long Leisure", "General User"}

\* The documented rule table, rules 1..9: the condition of rule i on
\* x = (duration, hour, is_weekend, is_weekday).
RuleHolds(i, x) ==
    LET d  == x.duration.v
        h  == x.hour.v
        we == Truthy(x.is_weekend)
        wd == Truthy(x.is_weekday)
    IN  CASE i = 1 -> d > Minutes(90)
          [] i = 2 -> we /\ Minutes(30) <= d /\ d <= Minutes(70) /\ 12 <= h /\ h <= 18
          [] i = 3 -> wd /\ Minutes(45) <= d /\ d <= Minutes(80) /\ 14 <= h /\ h <= 19
          [] i = 4 -> wd /\ d < Minutes(30) /\ 16 <= h /\ h <= 21
          [] i = 5 -> wd /\ d < Minutes(30) /\ 6 <= h /\ h <= 11
          [] i = 6 -> we /\ Minutes(20) <= d /\ d <= Minutes(60) /\ 7 <= h /\ h <= 12
          [] i = 7 -> wd /\ d < Minutes(35) /\ (h >= 22 \/ h <= 2)
          [] i = 8 -> wd /\ Minutes(30) <= d /\ d <= Minutes(70) /\ 5 <= h /\ h <= 8
          [] i = 9 -> we /\ Minutes(60) <= d /\ d <= Minutes(90)

RuleLabel(i) ==
    CASE i \in {1, 9} -> "Tourist/Long Leisure"
      [] i \in {2, 6} -> "Weekend Explorer"
      [] i \in {3, 8} -> "Fitness"
      [] i \in {4, 7} -> "Evening Commuter"
      [] i = 5        -> "Morning Commuter"

\* Rule 10.
Rule10Label(x) ==
    IF Truthy(x.is_weekend) THEN "Weekend Explorer"
    ELSE IF x.hour.v < 12 THEN "Morning Commuter"
    ELSE IF x.hour.v >= 16 THEN "Evening Commuter"
    ELSE "Fitness"

\* The label of the first rule that matches, else the label of rule 10.
FirstMatchLabel(x) ==
    LET hits == {i \in 1..9 : RuleHolds(i, x)}
    IN  IF hits = {} THEN Rule10Label(x)
        ELSE RuleLabel(CHOOSE i \in hits : \A j \in hits : i <= j)

Classified == persona # "pending"

Known == IsNum(used.duration) /\ IsNum(used.hour)

\* C1: a trip whose duration and hour are known gets the label of the first
\* rule 1..9 that matches, else the rule-10 label; a duration above 90 minutes
\* always gives Tourist/Long Leisure.
C1_FirstMatchWins ==
    (Classified /\ Known) =>
        /\ persona = FirstMatchLabel(used)
        /\ (used.duration.v > Minutes(90) => persona = "Tourist/Long Leisure")

\* C1 witness: a classified weekend trip that matches rule 2 and rule 9 at
\* once and carries the label of rule 2.
C1_Witness ==
    /\ Classified /\ Known
    /\ RuleHolds(2, used) /\ RuleHolds(9, used)
    /\ persona = "Weekend Explorer"

\* C2: after rule-based classification the persona is one of the six labels,
\* whatever the duration, hour and day flags, missing values included.
C2_PersonaInFixedSet == Classified => persona \in PersonaSet

\* C2 witness: a classified row whose hour is NaN, labelled by the last else.
C2_Witness ==
    /\ Classified
    /\ used.hour = NaN /\ IsNum(used.duration)
    /\ persona = "Fitness"

\* Some source of the row gives a number for the duration.
DurationDerivable(r) ==
    \/ IsNum(r.duration_minutes)
    \/ IsNum(r.duration)
    \/ IsNum(r.duration_ms)

\* The hour column gives a number, or the start timestamp can be parsed.
HourDerivable(r) == IsNum(r.hour) \/ r.start_date.t = "ts"

\* C4: a row is labelled General User if and only if its duration or its hour
\* cannot be derived from any source.
C4_GeneralUserIffUnderivable ==
    Classified =>
        (persona = "General User" <=> (~DurationDerivable(row) \/ ~HourDerivable(row)))

\* ------------------------------------------------ claims on a DataFrame

Done == result.status # "none"

Returned == result.status = "ok"

\* The labels of the returned dataset.
LabelSet == {result.persona[i] : i \in 1..Len(result.persona)}

\* The labels of the fixed mapping table.
MappingTable == {"Evening Commuter", "Weekend Explorer", "Morning Commuter",
                 "Tourist/Long Leisure", "Fitness"}

\* Cluster_<i> for the cluster indexes beyond the mapping table.
PlaceholderLabels == {"Cluster_" \o ToString(i) : i \in 5..(MaxK + 1)}

\* C3 as stated: whatever the strategy and the cluster count k, every trip
\* of the returned dataset has a persona of the fixed persona set.
C3_AnyK_PersonaInFixedSet == Returned => LabelSet \subseteq PersonaSet

\* C3 amended: with the rule-based strategy, or with clustering and k <= 5,
\* every trip of the returned dataset has a persona of the fixed persona
\* set; with k > 5 a label is of the set or a Cluster_<i> with 5 <= i < k.
C3_PersonaInFixedSetUpTo5 ==
    Returned =>
        /\ Len(result.persona) = Len(df.rows)
        /\ (result.strategy = "rule_based" \/ result.k <= 5) => LabelSet \subseteq PersonaSet
        /\ LabelSet \subseteq PersonaSet \cup {"Cluster_" \o ToString(i) : i \in 5..(result.k - 1)}

\* C3 witness: a clustering with k = 5 that succeeded and uses cluster 4.
C3_Witness ==
    /\ Returned /\ result.strategy = "clustering" /\ result.k = 5
    /\ ~result.logged_error
    /\ \E i \in 1..Len(result.cluster) :
        result.cluster[i] = 4 /\ result.persona[i] = "Fitness"

\* The scenario of C5: three weekday trips of 10, 95 and 50 minutes at the
\* hours 8, 13 and 16, classified by the rule-based strategy.
C5_Scenario ==
    /\ Returned /\ result.strategy = "rule_based"
    /\ Len(df.rows) = 3
    /\ \A i \in 1..3 :
        LET x == ExtractRow(df.rows[i])
        IN  /\ x.duration = Num(Minutes(<<10, 95, 50>>[i]))
            /\ x.hour = Num(<<8, 13, 16>>[i])
            /\ x.is_weekday = Num(1) /\ x.is_weekend = Num(0)

\* C5 as stated: the scenario yields Morning Commuter, Tourist/Long Leisure,
\* Evening Commuter.
C5_ScenarioEveningCommuter ==
    C5_Scenario =>
        result.persona = <<"Morning Commuter", "Tourist/Long Leisure", "Evening Commuter">>

\* C5 amended: the scenario yields Morning Commuter, Tourist/Long Leisure,
\* Fitness: the third trip matches the Fitness rule before any commuter rule.
C5_ScenarioFitness ==
    C5_Scenario =>
        result.persona = <<"Morning Commuter", "Tourist/Long Leisure", "Fitness">>

\* C5 witness: the scenario has been classified, from a DataFrame that gives
\* the duration in seconds and no hour and day flag columns.
C5_Witness == C5_Scenario /\ df.columns = {"start_date", "duration"}

\* The dataset passes the input validation.
ValidInput ==
    df.kind = "frame" /\ Len(df.rows) > 0 /\ "start_date" \in df.columns

\* C6: when the clustering strategy fails, no error surfaces and every row
\* carries its rule-based label; a result is either cluster-mapped in every
\* row or rule-based in every row; classification succeeds whenever the
\* input validation has passed.
C6_FallbackWholeDataset ==
    Done =>
        /\ ValidInput => Returned
        /\ (Returned /\ result.strategy = "clustering") =>
            IF result.logged_error
            THEN /\ result.cluster = <<>>
                 /\ Len(result.persona) = Len(df.rows)
                 /\ \A i \in 1..Len(df.rows) :
                        result.persona[i] = assign_persona_rule_based(df.rows[i])
            ELSE /\ Len(result.cluster) = Len(df.rows)
                 /\ \A i \in 1..Len(df.rows) :
                        result.persona[i] = GeneratePersonaName(result.cluster[i])

\* C6 witness: a clustering of several rows that have a duration column
\* failed in the fitting and fell back, with rows of different labels.
C6_Witness ==
    /\ Returned /\ result.strategy = "clustering" /\ result.logged_error
    /\ "duration_minutes" \in df.columns
    /\ Len(df.rows) >= 3
    /\ Cardinality(LabelSet) >= 3

\* C7: clustering a non-empty dataset with a start timestamp and no duration
\* source raises no error, falls back, and labels every trip General User.
C7_NoDurationGeneralUser ==
    (Done /\ result.strategy = "clustering" /\ ValidInput
          /\ {"duration_minutes", "duration", "duration_ms"} \cap df.columns = {}) =>
        /\ Returned
        /\ result.logged_error
        /\ Len(result.persona) = Len(df.rows)
        /\ \A i \in 1..Len(result.persona) : result.persona[i] = "General User"

\* C7 witness: such a dataset with parseable start dates and an hour column
\* has been classified.
C7_Witness ==
    /\ Returned /\ result.strategy = "clustering"
    /\ df.columns = {"start_date", "hour", "is_weekend", "is_weekday"}
    /\ Len(df.rows) >= 2
    /\ \A i \in 1..Len(df.rows) : df.rows[i].start_date.t = "ts"

\* C8 as stated: clustering with k = 5 yields exactly 5 distinct labels, all
\* of the mapping table.
C8_ExactlyFiveLabels ==
    (Returned /\ result.strategy = "clustering" /\ result.k = 5) =>
        /\ Cardinality(LabelSet) = 5
        /\ LabelSet \subseteq MappingTable

\* C8 amended: clustering with k = 5 yields no Cluster_<i> label and at most
\* 5 distinct labels; when the clustering succeeds they are labels of the
\* mapping table, one per cluster in use, so at most as many as the dataset
\* has distinct feature rows; when it fails (fewer than 5 trips, no usable
\* feature column) they are the rule-based labels.
C8_NoPlaceholderAtMostFive ==
    (Returned /\ result.strategy = "clustering" /\ result.k = 5) =>
        /\ LabelSet \cap PlaceholderLabels = {}
        /\ "Cluster_4" \notin LabelSet
        /\ Cardinality(LabelSet) <= 5
        /\ ~result.logged_error =>
            /\ Len(df.rows) >= 5
            /\ LabelSet \subseteq MappingTable
            /\ Cardinality(LabelSet) <= Cardinality({Features(df)[i] : i \in 1..Len(df.rows)})
        /\ result.logged_error => LabelSet \subseteq PersonaSet

\* C8 witness: a clustering with k = 5 that succeeded with all 5 labels.
C8_Witness ==
    /\ Returned /\ result.strategy = "clustering" /\ result.k = 5
    /\ ~result.logged_error
    /\ LabelSet = MappingTable

\* C9: for a dataset that is None, empty or without the start-time column,
\* classify fails with the input error under both strategies: nothing is
\* labelled and there is no fall-back.
C9_InputErrorBeforeLabelling ==
    (Done /\ (df.kind = "None" \/ Len(df.rows) = 0 \/ "start_date" \notin df.columns)) =>
        /\ result.status = "InputError"
        /\ result.persona = <<>>
        /\ result.cluster = <<>>
        /\ ~result.logged_error

\* C9 witness: the clustering strategy was asked for rows that have every
\* feature column and no start-time column, and the call failed.
C9_Witness ==
    /\ result.status = "InputError" /\ result.strategy = "clustering"
    /\ Len(df.rows) >= 2
    /\ df.columns = {"duration_minutes", "hour", "is_weekend", "is_weekday"}

\* C10: the is_weekend and is_weekday values a classification works on are
\* never both 1, under either strategy.
C10_FlagsNeverBoth ==
    Returned =>
        \A i \in 1..Len(result.flags) : result.flags[i] # <<Num(1), Num(1)>>

\* The label the claim's table gives to cluster index i.
TableLabel(i) ==
    IF i = 0 THEN "Evening Commuter"
    ELSE IF i = 1 THEN "Weekend Explorer"
    ELSE IF i = 2 THEN "Morning Commuter"
    ELSE IF i = 3 THEN "Tourist/Long Leisure"
    ELSE IF i = 4 THEN "Fitness"
    ELSE "Cluster_" \o ToString(i)

\* Row i of the result has a cluster index of 0..k-1 and its table label.
ClusterLabelled(i) ==
    /\ i \in DOMAIN result.cluster
    /\ result.cluster[i] \in 0..(result.k - 1)
    /\ result.persona[i] = TableLabel(result.cluster[i])

\* C11 as stated: whenever the clustering strategy is requested and the
\* input validation passes, every row of the result has a cluster index and
\* the table label of that index as its persona.
C11_ClusterAlwaysPopulated ==
    (Done /\ result.strategy = "clustering" /\ ValidInput) =>
        /\ Returned
        /\ Len(result.persona) = Len(df.rows)
        /\ \A i \in 1..Len(df.rows) : ClusterLabelled(i)

\* C11 amended: when the clustering strategy is requested, the validation
\* passes and the clustering does not fail, every row of the result has a
\* cluster index of 0..k-1 and the table label of that index as its persona;
\* when the clustering fails, the result has a persona for every row and no
\* cluster for any row.
C11_ClusterPopulatedUnlessFallback ==
    (Done /\ result.strategy = "clustering" /\ ValidInput) =>
        /\ Returned
        /\ Len(result.persona) = Len(df.rows)
        /\ IF result.logged_error
           THEN result.cluster = <<>>
           ELSE \A i \in 1..Len(df.rows) : ClusterLabelled(i)

\* C11 witness: a clustering with k = 6 succeeded on six rows and its result
\* has a row of cluster 0, one of cluster 2 and one of cluster 5.
C11_Witness ==
    /\ Returned /\ result.strategy = "clustering" /\ result.k = 6
    /\ ~result.logged_error
    /\ \E i, j, l \in 1..Len(df.rows) :
        /\ result.cluster[i] = 0 /\ result.persona[i] = "Evening Commuter"
        /\ result.cluster[j] = 2 /\ result.persona[j] = "Morning Commuter"
        /\ result.cluster[l] = 5 /\ result.persona[l] = "Cluster_5"

\* ========================================================================
\* Marketing statistics (src/utils/persona_marketing_stats.py).
\*
\* SpecStats: a labelled DataFrame is built from blocks of trips and handed
\* to compute_marketing_stats with a persona filter.  The variable df holds
\* the DataFrame, persona the filter and result the returned bundle.
\*
\* Values.  A coordinate cell holds a number or NaN.  A start_date is a
\* timestamp with its month, weekday (Monday = 0) and hour.  A dict is the
\* sequence of its <<key, value>> items in insertion order.  A ratio is kept
\* exact as [num, den].
\* ========================================================================

\* Number of trips of the largest block of the sample.
BulkCopies == 9

\* A start_date of month m (1..12), weekday w (Monday = 0) and hour h.
DateTime(m, w, h) == [t |-> "ts", hour |-> h, weekday |-> w, month |-> m]

\* A labelled trip with its stations, coordinates and start date.
StatsTrip(p, s, slat, slon, e, elat, elon, date, minutes) ==
    [rental_id |-> 0, persona |-> p,
     start_station_name |-> s, start_lat |-> slat, start_lon |-> slon,
     end_station_name |-> e, end_lat |-> elat, end_lon |-> elon,
     start_date |-> date, duration_minutes |-> minutes]

\* The columns of a labelled DataFrame.
StatsColumns ==
    {"rental_id", "persona", "start_station_name", "start_lat", "start_lon",
     "end_station_name", "end_lat", "end_lon", "start_date", "duration_minutes"}

\* The blocks of the sample: copies trips that are equal but for rental_id.
\* The coordinates of a station are (n, 10 + n); a second recorded latitude
\* of Monument is 9.
SampleBlocks ==
    << [copies |-> BulkCopies,
        trip |-> StatsTrip("Morning Commuter", "Monument", Num(1), Num(11),
                           "Pimlico", Num(2), Num(12), DateTime(1, 0, 8), Num(Minutes(10)))],
       [copies |-> 1,
        trip |-> StatsTrip("Fitness", "Monument", NaN, NaN,
                           "Pimlico", Num(2), Num(12), DateTime(3, 1, 17), Num(Minutes(50)))],
       [copies |-> 1,
        trip |-> StatsTrip("Morning Commuter", "Monument", Num(9), Num(11),
                           "Bloomsbury", Num(3), NaN, DateTime(7, 5, 8), NaN)],
       [copies |-> 6,
        trip |-> StatsTrip("Fitness", "Pimlico", Num(2), Num(12),
                           "Monument", Num(1), Num(11), DateTime(12, 6, 23), Num(Minutes(60)))],
       [copies |-> 5,
        trip |-> StatsTrip("Morning Commuter", "Bloomsbury", NaN, NaN,
                           "Monument", Num(1), Num(11), DateTime(1, 2, 9), Num(Minutes(20)))],
       [copies |-> 4,
        trip |-> StatsTrip("Fitness", "Hyde Park", Num(4), Num(14),
                           "Southwark", NaN, NaN, DateTime(7, 3, 17), Num(Minutes(70)))],
       [copies |-> 3,
        trip |-> StatsTrip("Morning Commuter", "Southwark", Num(5), Num(15),
                           "Hyde Park", Num(4), Num(14), DateTime(2, 4, 0), Num(Minutes(30)))],
       [copies |-> 3,
        trip |-> StatsTrip("Fitness", "Knightsbridge", Num(6), NaN,
                           "Canary Wharf", Num(7), Num(17), DateTime(12, 0, 8), Num(Minutes(45)))],
       [copies |-> 4,
        trip |-> StatsTrip("Morning Commuter", "Pimlico", Num(2), Num(12),
                           "Bloomsbury", Num(3), Num(13), DateTime(3, 4, 18), Num(Minutes(25)))] >>

\* The persona filters of the selection box.
PersonaFilters == {"ALL", "Morning Commuter", "Fitness", "Weekend Explorer"}

\* The rental_id of copy j of block b.
RentalId(b, j) == b * 100 + j

\* The block the last row of the DataFrame came from, 0 for no row.
LastBlock(d) == IF Len(d.rows) = 0 THEN 0 ELSE d.rows[Len(d.rows)].rental_id \div 100

\* The rows of block b.
BlockRows(b) ==
    [j \in 1..SampleBlocks[b].copies |->
        [SampleBlocks[b].trip EXCEPT !.rental_id = RentalId(b, j)]]

\* ------------------------------------------------------------ pandas steps

\* The smaller of two numbers.
Min(a, b) == IF a < b THEN a ELSE b

\* s.head(n)
HeadOf(s, n) == SubSeq(s, 1, Min(n, Len(s)))

\* Mutant: the persona filter is not applied.
FilterRowsAll(d, p) == d.rows

\* df[df["persona"] == persona], or df itself for "ALL".
FilterRows(d, p) ==
    LET keep(r) == r.persona = p
    IN  IF p = "ALL" THEN d.rows ELSE SelectSeq(d.rows, keep)

\* The positions of the rows of R whose columns cols hold the values key.
GroupOf(R, cols, key) ==
    {i \in 1..Len(R) : \A c \in 1..Len(cols) : R[i][cols[c]] = key[c]}

\* The keys of R.groupby(cols), and of value_counts for one column.
GroupKeys(R, cols) ==
    {[c \in 1..Len(cols) |-> R[i][cols[c]]] : i \in 1..Len(R)}

\* groupby(cols).size(): the number of rows of every group.
GroupSizes(R, cols) ==
    [key \in GroupKeys(R, cols) |-> Cardinality(GroupOf(R, cols, key))]

RECURSIVE SortValuesDescending(_)
\* sort_values(ascending=False) of the counts cnt, as the orders of the keys
\* it may give: counts never increase along the order, and keys of equal
\* count come in any order, the default sort kind being quicksort, which is
\* not stable.
SortValuesDescending(cnt) ==
    IF DOMAIN cnt = {} THEN {<<>>}
    ELSE LET top == {k \in DOMAIN cnt : \A j \in DOMAIN cnt : cnt[j] <= cnt[k]}
         IN  UNION {{<<k>> \o rest :
                        rest \in SortValuesDescending([j \in DOMAIN cnt \ {k} |-> cnt[j]])} :
                    k \in top}

\* The smallest number of a non-empty set.
Least(S) == CHOOSE i \in S : \A j \in S : i <= j

\* first of a groupby aggregation: the first non-null cell of column c in
\* the rows I of R, NaN when every cell is null.
FirstNonNull(R, I, c) ==
    LET known == {i \in I : IsNum(R[i][c])}
    IN  IF known = {} THEN NaN ELSE R[Least(known)][c]

\* Mutant: dropna looks at the latitude only.
CoordLookupLatOnly(R, name, a, b, key) ==
    LET known == {i \in 1..Len(R) : R[i][name] = key /\ IsNum(R[i][a])}
    IN  IF known = {} THEN 0 ELSE Least(known)

\* dropna(subset=[a, b]).drop_duplicates(subset=[name]): the position of the
\* first row of R for station key in column name with both cells non-null,
\* 0 when there is none.
CoordLookup(R, name, a, b, key) ==
    LET known == {i \in 1..Len(R) :
                    R[i][name] = key /\ IsNum(R[i][a]) /\ IsNum(R[i][b])}
    IN  IF known = {} THEN 0 ELSE Least(known)

\* ------------------------------------------------ compute_marketing_stats

\* The station names in the order of a sorted index.
SortedStationNames ==
    <<"Bloomsbury", "Canary Wharf", "Hyde Park", "Knightsbridge", "Monument",
      "Pimlico", "Southwark">>

\* The place of a station name in a sorted index.
NameRank(n) == CHOOSE i \in 1..Len(SortedStationNames) : SortedStationNames[i] = n

\* An exact ratio num / den.
Ratio(n, d) == [num |-> n, den |-> d]

\* a > b for two ratios of positive denominators.
RatioGt(a, b) == a.num * b.den > b.num * a.den

\* value_counts().head(5) of column c: the dicts it may give, each the items
\* <<name, count>> in their order.
TopCounts(R, c) ==
    LET cnt == GroupSizes(R, <<c>>)
    IN  {[i \in 1..Min(5, Len(order)) |-> <<order[i][1], cnt[order[i]]>>] :
            order \in SortValuesDescending(cnt)}

RECURSIVE TopWithCoords(_, _, _, _, _)
\* The loop over the top stations: an entry for every station that is in the
\* coordinate lookup, with the coordinates of the lookup row.
TopWithCoords(R, top, name, a, b) ==
    IF top = <<>> THEN <<>>
    ELSE LET item == top[Len(top)]
             at   == CoordLookup(R, name, a, b, item[1])
             rest == TopWithCoords(R, SubSeq(top, 1, Len(top) - 1), name, a, b)
         IN  IF at = 0 THEN rest
             ELSE Append(rest, [name |-> item[1], count |-> item[2],
                                lat |-> R[at][a], lon |-> R[at][b]])

\* One role of the station footprint: a row per trip with the station's name
\* and coordinates and, as count, the number of trips of the station in
\* that role; dropna() removes the rows with a null coordinate.
RoleStations(R, name, a, b) ==
    LET cnt == GroupSizes(R, <<name>>)
    IN  [i \in {j \in 1..Len(R) : IsNum(R[j][a]) /\ IsNum(R[j][b])} |->
            [name |-> R[i][name], lat |-> R[i][a], lon |-> R[i][b],
             count |-> cnt[<<R[i][name]>>]]]

\* The sum of the count cells of the rows I of the table T.
RECURSIVE SumCounts(_, _)
SumCounts(T, I) ==
    IF I = {} THEN 0
    ELSE LET i == CHOOSE j \in I : TRUE
         IN  T[i].count + SumCounts(T, I \ {i})

\* The place of a (name, lat, lon) key in the sorted index of a groupby.
FootprintRank(k) == (NameRank(k.name) * 100 + k.lat.v) * 100 + k.lon.v

RECURSIVE SortedFootprint(_)
\* The records of S in the order of their keys.
SortedFootprint(S) ==
    IF S = {} THEN <<>>
    ELSE LET k == CHOOSE x \in S : \A y \in S : FootprintRank(x) <= FootprintRank(y)
         IN  <<k>> \o SortedFootprint(S \ {k})

\* persona_stations_with_coords: the start rows and the end rows together,
\* grouped by (name, lat, lon), the count cells of a group summed.
PersonaStations(R) ==
    LET starts == RoleStations(R, "start_station_name", "start_lat", "start_lon")
        ends   == RoleStations(R, "end_station_name", "end_lat", "end_lon")
        Key(x) == [name |-> x.name, lat |-> x.lat, lon |-> x.lon]
        keys   == {Key(starts[i]) : i \in DOMAIN starts} \cup {Key(ends[i]) : i \in DOMAIN ends}
        Total(k) == SumCounts(starts, {i \in DOMAIN starts : Key(starts[i]) = k})
                    + SumCounts(ends, {i \in DOMAIN ends : Key(ends[i]) = k})
    IN  SortedFootprint({[name |-> k.name, lat |-> k.lat, lon |-> k.lon, count |-> Total(k)] :
                            k \in keys})

\* f"{start} -> {end}", the arrow written in ASCII.
RouteName(start, end) == start \o " -> " \o end

\* The corridor columns.
CorridorColumns == <<"start_station_name", "end_station_name">>

\* groupby(start, end).agg(...).sort_values(by='count', ascending=False)
\* .head(5): the tables it may give, each a sequence of rows with the key,
\* the size of the group and the first non-null coordinates of the group.
CorridorCounts(R) ==
    LET cnt == GroupSizes(R, CorridorColumns)
        Agg(key) ==
            LET I == GroupOf(R, CorridorColumns, key)
            IN  [start |-> key[1], end |-> key[2], count |-> cnt[key],
                 start_lat |-> FirstNonNull(R, I, "start_lat"),
                 start_lon |-> FirstNonNull(R, I, "start_lon"),
                 end_lat |-> FirstNonNull(R, I, "end_lat"),
                 end_lon |-> FirstNonNull(R, I, "end_lon")]
    IN  {[i \in 1..Min(5, Len(order)) |-> Agg(order[i])] :
            order \in SortValuesDescending(cnt)}

\* formatted_corridors
FormattedCorridors(corridors) ==
    [i \in 1..Len(corridors) |->
        <<RouteName(corridors[i].start, corridors[i].end), corridors[i].count>>]

RECURSIVE CorridorsWithCoords(_)
\* The loop over the top corridors: an entry for every corridor whose
\* start_lat and end_lat are not null.
CorridorsWithCoords(corridors) ==
    IF corridors = <<>> THEN <<>>
    ELSE LET data == corridors[Len(corridors)]
             rest == CorridorsWithCoords(SubSeq(corridors, 1, Len(corridors) - 1))
         IN  IF IsNum(data.start_lat) /\ IsNum(data.end_lat)
             THEN Append(rest, [route_name |-> RouteName(data.start, data.end),
                                count |-> data.count,
                                start_coords |-> <<data.start_lat, data.start_lon>>,
                                end_coords |-> <<data.end_lat, data.end_lon>>])
             ELSE rest

\* The fewest total trips of a station that is rated for opportunity.
OpportunityThreshold == 10

RECURSIVE SortedNames(_)
\* The station names of S in the order of a sorted index.
SortedNames(S) ==
    IF S = {} THEN <<>>
    ELSE LET n == CHOOSE x \in S : \A y \in S : NameRank(x) <= NameRank(y)
         IN  <<n>> \o SortedNames(S \ {n})

\* Mutant: the 10 trips are asked of the trips of the persona.
ConcentrationDataOfPersona(R, full) ==
    LET totals   == GroupSizes(full, <<"start_station_name">>)
        personas == GroupSizes(R, <<"start_station_name">>)
        Get0(cnt, n) == IF <<n>> \in DOMAIN cnt THEN cnt[<<n>>] ELSE 0
        eligible == {k[1] : k \in {x \in DOMAIN personas : personas[x] >= OpportunityThreshold}}
        names    == SortedNames(eligible)
    IN  [i \in 1..Len(names) |->
            [station |-> names[i],
             persona_trips |-> Get0(personas, names[i]),
             total_trips |-> Get0(totals, names[i]),
             concentration_pct |->
                Ratio(Get0(personas, names[i]) * 100, Get0(totals, names[i])),
             relative_concentration |->
                Ratio(Get0(personas, names[i]) * Len(full),
                      Get0(totals, names[i]) * Len(R))]]

\* concentration_data: a row for every start station of the whole dataset
\* that has at least 10 trips there, in the order of the sorted index of
\* station_total_counts.  relative_concentration is
\* (persona_trips / total_trips * 100) / (len(df) / len(full_df) * 100).
ConcentrationData(R, full) ==
    LET totals   == GroupSizes(full, <<"start_station_name">>)
        personas == GroupSizes(R, <<"start_station_name">>)
        Get0(cnt, n) == IF <<n>> \in DOMAIN cnt THEN cnt[<<n>>] ELSE 0
        eligible == {k[1] : k \in {x \in DOMAIN totals : totals[x] >= OpportunityThreshold}}
        names    == SortedNames(eligible)
    IN  [i \in 1..Len(names) |->
            [station |-> names[i],
             persona_trips |-> Get0(personas, names[i]),
             total_trips |-> Get0(totals, names[i]),
             concentration_pct |->
                Ratio(Get0(personas, names[i]) * 100, Get0(totals, names[i])),
             relative_concentration |->
                Ratio(Get0(personas, names[i]) * Len(full),
                      Get0(totals, names[i]) * Len(R))]]

RECURSIVE NLargestByPersonaTrips(_, _, _)
\* Mutant: the stations are selected by their trips of the persona.
NLargestByPersonaTrips(T, I, n) ==
    IF n = 0 \/ I = {} THEN <<>>
    ELSE LET best == {i \in I : \A j \in I : T[j].persona_trips <= T[i].persona_trips}
             i == Least(best)
         IN  <<T[i]>> \o NLargestByPersonaTrips(T, I \ {i}, n - 1)

RECURSIVE NLargest(_, _, _)
\* nlargest(n, 'relative_concentration') of the rows I of the table T: the
\* rows of the n largest values, largest first, the earlier row first among
\* equal values.
NLargest(T, I, n) ==
    IF n = 0 \/ I = {} THEN <<>>
    ELSE LET best == {i \in I : \A j \in I :
                        ~RatioGt(T[j].relative_concentration, T[i].relative_concentration)}
             i == Least(best)
         IN  <<T[i]>> \o NLargest(T, I \ {i}, n - 1)

\* opportunity_stations: the persona share and the trips of the persona at
\* every station selected; the share and the concentration are kept as
\* exact ratios, before their formatting to one and two decimals.
OpportunityStations(top) ==
    [i \in 1..Len(top) |->
        <<top[i].station,
          [persona_pct |-> top[i].concentration_pct,
           concentration |-> top[i].relative_concentration,
           trips |-> top[i].persona_trips]>>]

\* coord_lookup of the opportunity stations: the rows of the whole dataset
\* with both start coordinates, indexed by station name, of which
\* drop_duplicates() keeps the first row of every (start_lat, start_lon).
OpportunityCoordLookup(full) ==
    LET known == {i \in 1..Len(full) :
                    IsNum(full[i].start_lat) /\ IsNum(full[i].start_lon)}
    IN  {i \in known :
            \A j \in known :
                (full[j].start_lat = full[i].start_lat
                 /\ full[j].start_lon = full[i].start_lon) => i <= j}

RECURSIVE PositionsInOrder(_)
\* The positions of I in ascending order.
PositionsInOrder(I) ==
    IF I = {} THEN <<>> ELSE <<Least(I)>> \o PositionsInOrder(I \ {Least(I)})

RECURSIVE OpportunityWithCoords(_, _)
\* The loop over the selected stations: an entry for every station in the
\* index of coord_lookup.  coord_lookup.loc[station] is one row, and the
\* coordinates are numbers, when the station has one row there; it is a
\* table, and each coordinate a Series, when the station has several.
OpportunityWithCoords(top, full) ==
    IF top = <<>> THEN <<>>
    ELSE LET data == top[Len(top)]
             rest == OpportunityWithCoords(SubSeq(top, 1, Len(top) - 1), full)
             at   == PositionsInOrder({i \in OpportunityCoordLookup(full) :
                                        full[i].start_station_name = data.station})
         IN  IF at = <<>> THEN rest
             ELSE Append(rest,
                    <<data.station,
                      [kind |-> IF Len(at) = 1 THEN "number" ELSE "Series",
                       lat |-> [j \in 1..Len(at) |-> full[at[j]].start_lat],
                       lon |-> [j \in 1..Len(at) |-> full[at[j]].start_lon],
                       concentration |-> data.relative_concentration,
                       persona_pct |-> data.concentration_pct]>>)

\* day_order
DayOrder ==
    <<"Monday", "Tuesday", "Wednesday", "Thursday", "Friday", "Saturday", "Sunday">>

\* Mutant: the day names are looked up in a week that starts on Sunday.
DayNameSundayFirst(date) ==
    <<"Sunday", "Monday", "Tuesday", "Wednesday", "Thursday", "Friday", "Saturday">>[date.weekday + 1]

\* dt.day_name()
DayName(date) == DayOrder[date.weekday + 1]

\* trips_by_hour: value_counts of dt.hour, reindexed to range(24).
TripsByHour(R) ==
    [i \in 1..24 |->
        <<i - 1, Cardinality({j \in 1..Len(R) : R[j].start_date.hour = i - 1})>>]

\* trips_by_day_of_week: value_counts of dt.day_name(), reindexed to
\* day_order.
TripsByDayOfWeek(R) ==
    [i \in 1..7 |->
        <<DayOrder[i], Cardinality({j \in 1..Len(R) : DayName(R[j].start_date) = DayOrder[i]})>>]

\* Mutant: the counts are reindexed to range(12), so that entry m holds the
\* trips of month m - 1.
MonthlyCountsFromZero(R) ==
    [m \in 1..12 |-> <<m, Cardinality({j \in 1..Len(R) : R[j].start_date.month = m - 1})>>]

\* monthly_counts: value_counts of dt.month, reindexed to range(1, 13).
MonthlyCounts(R) ==
    [m \in 1..12 |-> <<m, Cardinality({j \in 1..Len(R) : R[j].start_date.month = m})>>]

\* monthly_percentages: monthly_counts / total_trips * 100, as a list.
MonthlyPercentages(R) ==
    [m \in 1..12 |->
        IF Len(R) > 0 THEN Ratio(MonthlyCounts(R)[m][2] * 100, Len(R)) ELSE Ratio(0, 1)]

\* df["duration_minutes"].dropna()
Durations(R) ==
    LET known(r) == IsNum(r.duration_minutes)
        kept == SelectSeq(R, known)
    IN  [i \in 1..Len(kept) |-> kept[i].duration_minutes.v]

\* The keys of the duration statistics.
DurationKeys ==
    {"trip_duration_mean_min", "trip_duration_median_min",
     "trip_duration_25th_min", "trip_duration_75th_min"}

\* A returned dict: keys is the set of its keys, and the value of a key that
\* is not in keys is a filler.  durations is the sample the four duration
\* statistics are computed from.
EmptyStats ==
    [status |-> "returned", keys |-> {}, error |-> "",
     trip_count |-> 0,
     top_start_stations |-> <<>>, top_end_stations |-> <<>>,
     top_start_stations_with_coords |-> <<>>, top_end_stations_with_coords |-> <<>>,
     persona_stations_with_coords |-> <<>>,
     top_travel_corridors |-> <<>>, top_travel_corridors_with_coords |-> <<>>,
     opportunity_stations |-> <<>>, opportunity_stations_with_coords |-> <<>>,
     trips_by_hour |-> <<>>, trips_by_day_of_week |-> <<>>,
     monthly_usage_percentages |-> <<>>, monthly_usage_counts |-> <<>>,
     durations |-> <<>>]

\* return {"error": "No data for this persona."}
NoDataError == [EmptyStats EXCEPT !.keys = {"error"}, !.error = "No data for this persona."]

\* A KeyError raised by the selection of a column the DataFrame lacks.
KeyError == [EmptyStats EXCEPT !.status = "KeyError"]

\* The columns the statistics of a non-empty selection read.
StationColumns ==
    {"rental_id", "start_station_name", "end_station_name",
     "start_lat", "start_lon", "end_lat", "end_lon"}

\* The keys every bundle of a non-empty selection has.
BaseKeys ==
    {"trip_count", "top_start_stations", "top_end_stations",
     "top_start_stations_with_coords", "top_end_stations_with_coords",
     "persona_stations_with_coords",
     "top_travel_corridors", "top_travel_corridors_with_coords"}

\* The keys of the opportunity rating.
OpportunityKeys == {"opportunity_stations", "opportunity_stations_with_coords"}

\* The keys of the time statistics.
TimeKeys ==
    {"trips_by_hour", "trips_by_day_of_week",
     "monthly_usage_percentages", "monthly_usage_counts"}

\* The bundle of the rows R selected from the rows full, for the orders
\* starts, ends and corridors the three sorts gave.
StatsBundle(d, p, R, starts, ends, corridors) ==
    LET full == d.rows
        data == ConcentrationData(R, full)
        top  == NLargest(data, 1..Len(data), 5)
        rated == p # "ALL" /\ Len(data) > 0
        timed == "start_date" \in d.columns
        durs  == IF "duration_minutes" \in d.columns THEN Durations(R) ELSE <<>>
    IN  [EmptyStats EXCEPT
            !.keys = BaseKeys
                     \cup (IF p = "ALL" \/ rated THEN OpportunityKeys ELSE {})
                     \cup (IF timed THEN TimeKeys ELSE {})
                     \cup (IF durs # <<>> THEN DurationKeys ELSE {}),
            !.trip_count = Len(R),
            !.top_start_stations = starts,
            !.top_end_stations = ends,
            !.top_start_stations_with_coords =
                TopWithCoords(R, starts, "start_station_name", "start_lat", "start_lon"),
            !.top_end_stations_with_coords =
                TopWithCoords(R, ends, "end_station_name", "end_lat", "end_lon"),
            !.persona_stations_with_coords =
                IF p # "ALL" THEN PersonaStations(R) ELSE <<>>,
            !.top_travel_corridors = FormattedCorridors(corridors),
            !.top_travel_corridors_with_coords = CorridorsWithCoords(corridors),
            !.opportunity_stations = IF rated THEN OpportunityStations(top) ELSE <<>>,
            !.opportunity_stations_with_coords =
                IF rated THEN OpportunityWithCoords(top, full) ELSE <<>>,
            !.trips_by_hour = IF timed THEN TripsByHour(R) ELSE <<>>,
            !.trips_by_day_of_week = IF timed THEN TripsByDayOfWeek(R) ELSE <<>>,
            !.monthly_usage_percentages = IF timed THEN MonthlyPercentages(R) ELSE <<>>,
            !.monthly_usage_counts = IF timed THEN MonthlyCounts(R) ELSE <<>>,
            !.durations = durs]

\* The results compute_marketing_stats(df, persona) may give.
compute_marketing_stats(d, p) ==
    IF p # "ALL" /\ "persona" \notin d.columns THEN {KeyError}
    ELSE LET R == FilterRows(d, p)
         IN  IF Len(R) = 0 THEN {NoDataError}
             ELSE IF ~(StationColumns \subseteq d.columns) THEN {KeyError}
             ELSE {StatsBundle(d, p, R, starts, ends, corridors) :
                      starts \in TopCounts(R, "start_station_name"),
                      ends \in TopCounts(R, "end_station_name"),
                      corridors \in CorridorCounts(R)}

\* ----------------------------------------------- SpecStats: the statistics

InitStats ==
    /\ df = Frame(StatsColumns, <<>>)
    /\ persona = "pending"
    /\ result = NoResult
    /\ row = NoRow
    /\ used = NoUse
    /\ earlier = NoCalls
    /\ generator = NoGenerator
    /\ session = NoSession
    /\ layer = NoLayer

\* The caller loads the trips of one more block into the DataFrame.
AddTrips ==
    /\ result.status = "none"
    /\ \E b \in 1..Len(SampleBlocks) :
        /\ LastBlock(df) < b
        /\ df' = [df EXCEPT !.rows = @ \o BlockRows(b)]
    /\ UNCHANGED <<persona, result, row, used, earlier, generator, session, layer>>

\* stats = compute_marketing_stats(df_for_analysis, selected_persona)
ComputeStats ==
    /\ result.status = "none"
    /\ \E p \in PersonaFilters :
        /\ persona' = p
        /\ result' \in compute_marketing_stats(df, p)
    /\ UNCHANGED <<df, row, used, earlier, generator, session, layer>>

NextStats == AddTrips \/ ComputeStats

SpecStats == InitStats /\ [][NextStats]_vars

\* ------------------------------------------------ claims of the statistics

\* compute_marketing_stats has returned or raised.
StatsDone == result.status \in {"returned", "KeyError"}

\* The positions of the trips of the dataset that the filter selects.
Selected == {i \in 1..Len(df.rows) : persona = "ALL" \/ df.rows[i].persona = persona}

\* A bundle without the error key has been returned.
HasBundle == result.status = "returned" /\ "error" \notin result.keys

RECURSIVE SumItems(_)
\* The sum of the values of the items of a dict.
SumItems(items) ==
    IF items = <<>> THEN 0 ELSE items[1][2] + SumItems(Tail(items))

\* The keys of a dict, in its order.
KeysOf(items) == [i \in 1..Len(items) |-> items[i][1]]

\* C12: compute_stats returns exactly the sentinel {error: "No data for this
\* persona."}, with no other key and without raising, when the filter selects
\* no trip; it returns a bundle without error key, with trip_count the number
\* of trips selected, when the filter selects a trip.
C12_SentinelIffEmpty ==
    StatsDone =>
        /\ result.status = "returned"
        /\ IF Selected = {}
           THEN /\ result.keys = {"error"}
                /\ result.error = "No data for this persona."
           ELSE /\ "error" \notin result.keys
                /\ "trip_count" \in result.keys
                /\ result.trip_count = Cardinality(Selected)

\* C12 witness: a persona filter that matches none of the trips of a
\* non-empty dataset gave the sentinel.
C12_Witness ==
    /\ StatsDone /\ persona = "Weekend Explorer"
    /\ Len(df.rows) > 0
    /\ result.keys = {"error"}

\* The names of the weekdays, Monday first.
WeekDays ==
    <<"Monday", "Tuesday", "Wednesday", "Thursday", "Friday", "Saturday", "Sunday">>

\* C13: in a bundle without error, trips_by_hour has the 24 keys 0..23 in
\* that order and trips_by_day_of_week the 7 keys Monday..Sunday in that
\* order; the count of a key is the number of selected trips of that hour or
\* weekday, 0 when there is none, and the counts of each sum to trip_count.
C13_HistogramsComplete ==
    HasBundle =>
        /\ {"trips_by_hour", "trips_by_day_of_week"} \subseteq result.keys
        /\ KeysOf(result.trips_by_hour) = [i \in 1..24 |-> i - 1]
        /\ KeysOf(result.trips_by_day_of_week) = WeekDays
        /\ \A h \in 0..23 :
            result.trips_by_hour[h + 1][2]
                = Cardinality({i \in Selected : df.rows[i].start_date.hour = h})
        /\ \A w \in 0..6 :
            result.trips_by_day_of_week[w + 1][2]
                = Cardinality({i \in Selected : df.rows[i].start_date.weekday = w})
        /\ SumItems(result.trips_by_hour) = result.trip_count
        /\ SumItems(result.trips_by_day_of_week) = result.trip_count

\* C13 witness: a bundle of a persona whose trips fall on two hours and on
\* more than two weekdays, with trips of other personas in the dataset.
C13_Witness ==
    /\ HasBundle /\ persona = "Morning Commuter"
    /\ result.trip_count < Len(df.rows)
    /\ Cardinality({h \in 0..23 : result.trips_by_hour[h + 1][2] > 0}) >= 2
    /\ Cardinality({w \in 1..7 : result.trips_by_day_of_week[w][2] > 0}) >= 3
    /\ result.trips_by_day_of_week[6][2] > 0

\* C14: in a bundle without error, monthly_usage_percentages has 12 entries,
\* January to December; entry m is 100 * (selected trips of month m) /
\* trip_count, 0 for a month without trips, and the entries sum to 100.
C14_MonthlyPercentages ==
    HasBundle =>
        /\ "monthly_usage_percentages" \in result.keys
        /\ result.trip_count > 0
        /\ Len(result.monthly_usage_percentages) = 12
        /\ \A m \in 1..12 :
            LET pct == result.monthly_usage_percentages[m]
                n   == Cardinality({i \in Selected : df.rows[i].start_date.month = m})
            IN  /\ pct.den > 0
                /\ pct.num * result.trip_count = 100 * n * pct.den
                /\ n = 0 => pct.num = 0
        /\ LET den == result.trip_count
               Part(m) == result.monthly_usage_percentages[m].num
                          * (den \div result.monthly_usage_percentages[m].den)
           IN  /\ \A m \in 1..12 : den % result.monthly_usage_percentages[m].den = 0
               /\ Part(1) + Part(2) + Part(3) + Part(4) + Part(5) + Part(6) + Part(7)
                  + Part(8) + Part(9) + Part(10) + Part(11) + Part(12) = 100 * den

\* C14 witness: a bundle of trips of January and July only, the two months
\* not equally used.
C14_Witness ==
    /\ HasBundle
    /\ \A m \in 1..12 : result.monthly_usage_percentages[m].num > 0 <=> m \in {1, 7}
    /\ RatioGt(result.monthly_usage_percentages[1], result.monthly_usage_percentages[7])

\* The selected trips whose columns cols hold the values key.
TripsOf(cols, key) ==
    {i \in Selected : \A c \in 1..Len(cols) : df.rows[i][cols[c]] = key[c]}

\* The keys that the columns cols hold in the selected trips.
KeysIn(cols) == {[c \in 1..Len(cols) |-> df.rows[i][cols[c]]] : i \in Selected}

\* The sequence keys with the counts counts is a top 5 of the keys of the
\* columns cols as C15 and C16 state it: min(5, number of keys) distinct
\* keys with their exact counts, no key left out with a higher count than a
\* key taken, and among keys of equal count the one met first in row order
\* ranked first and taken first.
TopFiveByEncounter(cols, keys, counts) ==
    LET all == KeysIn(cols)
        Count(k) == Cardinality(TripsOf(cols, k))
        First(k) == Least(TripsOf(cols, k))
        taken == {keys[i] : i \in 1..Len(keys)}
    IN  /\ Len(keys) = Min(5, Cardinality(all))
        /\ taken \subseteq all
        /\ Cardinality(taken) = Len(keys)
        /\ \A i \in 1..Len(keys) : counts[i] = Count(keys[i])
        /\ \A i, j \in 1..Len(keys) : i < j => Count(keys[i]) >= Count(keys[j])
        /\ \A x \in all \ taken : \A y \in taken : Count(x) <= Count(y)
        /\ \A i, j \in 1..Len(keys) :
            (i < j /\ Count(keys[i]) = Count(keys[j])) => First(keys[i]) < First(keys[j])
        /\ \A x \in all \ taken : \A y \in taken :
            Count(x) = Count(y) => First(y) < First(x)

\* The values of a dict, in its order.
ValuesOf(items) == [i \in 1..Len(items) |-> items[i][2]]

\* C15: top_start_stations and top_end_stations hold min(5, number of
\* distinct stations) stations with their exact trip counts, no station left
\* out has a higher count than a station taken, and among stations of equal
\* count the one met first in row order ranks first and is taken first.
C15_TopStationsByEncounter ==
    HasBundle =>
        /\ TopFiveByEncounter(<<"start_station_name">>,
                              [i \in 1..Len(result.top_start_stations) |->
                                  <<result.top_start_stations[i][1]>>],
                              ValuesOf(result.top_start_stations))
        /\ TopFiveByEncounter(<<"end_station_name">>,
                              [i \in 1..Len(result.top_end_stations) |->
                                  <<result.top_end_stations[i][1]>>],
                              ValuesOf(result.top_end_stations))

\* The (start, end) pairs whose route names are the keys of the dict items,
\* <<>> for a key that is the route name of no pair of the selection.
PairsOf(items) ==
    [i \in 1..Len(items) |->
        LET named == {k \in KeysIn(CorridorColumns) : RouteName(k[1], k[2]) = items[i][1]}
        IN  IF named = {} THEN <<>> ELSE CHOOSE k \in named : TRUE]

\* C16: top_travel_corridors holds min(5, number of distinct ordered
\* (start, end) pairs) corridors, keyed "{start} -> {end}", with their exact
\* counts; (A, B) and (B, A) are two corridors; no corridor left out has a
\* higher count than a corridor taken, and corridors of equal count are
\* ordered and taken in the order in which they are first met in the rows.
C16_TopCorridorsByEncounter ==
    HasBundle =>
        TopFiveByEncounter(CorridorColumns,
                           PairsOf(result.top_travel_corridors),
                           ValuesOf(result.top_travel_corridors))

\* Column c has a non-null cell in a selected trip of the corridor key.
Available(key, c) == \E i \in TripsOf(CorridorColumns, key) : IsNum(df.rows[i][c])

\* C17: every entry of top_travel_corridors_with_coords is a corridor of
\* top_travel_corridors with the same count; a corridor of the plain dict is
\* in the _with_coords list if and only if the latitude and the longitude of
\* its start and of its end are available; no entry has a null coordinate.
C17_CorridorCoordsComplete ==
    HasBundle =>
        LET plain  == result.top_travel_corridors
            coords == result.top_travel_corridors_with_coords
            pairs  == PairsOf(plain)
        IN  /\ \A j \in 1..Len(coords) :
                /\ \E i \in 1..Len(plain) :
                    plain[i] = <<coords[j].route_name, coords[j].count>>
                /\ \A x \in {1, 2} :
                    IsNum(coords[j].start_coords[x]) /\ IsNum(coords[j].end_coords[x])
            /\ \A i \in 1..Len(plain) :
                (\E j \in 1..Len(coords) : coords[j].route_name = plain[i][1])
                    <=> \A c \in {"start_lat", "start_lon", "end_lat", "end_lon"} :
                            Available(pairs[i], c)

\* The entries of the _with_coords list coords are those C18 states for the
\* top stations top of column name with the coordinate columns a and b.
TopCoordsAsStated(top, coords, name, a, b) ==
    LET WithBoth(n) == {i \in TripsOf(<<name>>, <<n>>) :
                        IsNum(df.rows[i][a]) /\ IsNum(df.rows[i][b])}
        Entries(n) == {j \in 1..Len(coords) : coords[j].name = n}
    IN  /\ \A j \in 1..Len(coords) :
            /\ \E i \in 1..Len(top) : top[i] = <<coords[j].name, coords[j].count>>
            /\ IsNum(coords[j].lat) /\ IsNum(coords[j].lon)
        /\ \A i \in 1..Len(top) :
            IF WithBoth(top[i][1]) = {} THEN Entries(top[i][1]) = {}
            ELSE /\ Cardinality(Entries(top[i][1])) = 1
                 /\ \A j \in Entries(top[i][1]) :
                     LET first == df.rows[Least(WithBoth(top[i][1]))]
                     IN  coords[j].lat = first[a] /\ coords[j].lon = first[b]

\* C18: for each station of top_start_stations (top_end_stations) the
\* _with_coords list has an entry with the same count and the coordinates of
\* the first selected trip where the station has both latitude and longitude;
\* a top station without such a trip has no entry and stays in the plain
\* dict; no entry has a null coordinate.
C18_TopStationCoords ==
    HasBundle =>
        /\ TopCoordsAsStated(result.top_start_stations,
                             result.top_start_stations_with_coords,
                             "start_station_name", "start_lat", "start_lon")
        /\ TopCoordsAsStated(result.top_end_stations,
                             result.top_end_stations_with_coords,
                             "end_station_name", "end_lat", "end_lon")

\* C18 witness: Monument is a top start station whose first trip has no
\* coordinates and a later one has, and its entry carries the later trip's;
\* Bloomsbury is a top start station without coordinates and without entry;
\* Knightsbridge has a latitude only and no entry.
C18_Witness ==
    /\ HasBundle /\ persona = "ALL"
    /\ ~IsNum(df.rows[1].start_lat) /\ df.rows[1].start_station_name = "Monument"
    /\ \E j \in 1..Len(result.top_start_stations_with_coords) :
        result.top_start_stations_with_coords[j]
            = [name |-> "Monument", count |-> 2, lat |-> Num(9), lon |-> Num(11)]
    /\ \A n \in {"Bloomsbury", "Knightsbridge"} :
        /\ \E i \in 1..Len(result.top_start_stations) : result.top_start_stations[i][1] = n
        /\ \A j \in 1..Len(result.top_start_stations_with_coords) :
            result.top_start_stations_with_coords[j].name # n

\* C19: for a filter other than "ALL", persona_stations_with_coords has one
\* entry for every (name, lat, lon) with non-null coordinates, its count the
\* number of selected trips that start at the station with those coordinates
\* plus the number that end there, so that the counts sum to at most
\* 2 * trip_count; for "ALL" the list is empty.
C19_FootprintCounts ==
    HasBundle =>
        LET list == result.persona_stations_with_coords
            Starts(e) == {i \in Selected :
                            /\ df.rows[i].start_station_name = e.name
                            /\ df.rows[i].start_lat = e.lat /\ df.rows[i].start_lon = e.lon}
            Ends(e) == {i \in Selected :
                            /\ df.rows[i].end_station_name = e.name
                            /\ df.rows[i].end_lat = e.lat /\ df.rows[i].end_lon = e.lon}
        IN  IF persona = "ALL" THEN list = <<>>
            ELSE /\ \A j \in 1..Len(list) :
                    /\ IsNum(list[j].lat) /\ IsNum(list[j].lon)
                    /\ list[j].count = Cardinality(Starts(list[j])) + Cardinality(Ends(list[j]))
                 /\ \A j, l \in 1..Len(list) :
                    (j # l) => <<list[j].name, list[j].lat, list[j].lon>>
                               # <<list[l].name, list[l].lat, list[l].lon>>
                 /\ \A i \in Selected :
                    /\ (IsNum(df.rows[i].start_lat) /\ IsNum(df.rows[i].start_lon)) =>
                        \E j \in 1..Len(list) : i \in Starts(list[j])
                    /\ (IsNum(df.rows[i].end_lat) /\ IsNum(df.rows[i].end_lon)) =>
                        \E j \in 1..Len(list) : i \in Ends(list[j])

\* The number of trips of the whole dataset that start at station n.
TotalTrips(n) == Cardinality({i \in 1..Len(df.rows) : df.rows[i].start_station_name = n})

\* The stations of opportunity_stations.
OpportunitySet ==
    {result.opportunity_stations[i][1] : i \in 1..Len(result.opportunity_stations)}

\* C20: a station with fewer than 10 trips in the whole dataset is never in
\* opportunity_stations; the 10 trips are counted in the whole dataset, not
\* in the selection: with at most 5 stations of 10 trips, each of them is in
\* opportunity_stations of any persona that has a trip in the dataset.
C20_ThresholdOnWholeDataset ==
    HasBundle =>
        LET rated == {n \in {df.rows[i].start_station_name : i \in 1..Len(df.rows)} :
                        TotalTrips(n) >= 10}
        IN  /\ \A n \in OpportunitySet : TotalTrips(n) >= 10
            /\ (persona # "ALL" /\ Cardinality(rated) <= 5) => OpportunitySet = rated
            /\ persona = "ALL" => OpportunitySet = {}

\* C20 witness: for the persona Fitness, Monument has 10 trips of which one
\* is of the persona and is an opportunity station, while Hyde Park, with 4
\* trips that are all of the persona, is not.
C20_Witness ==
    /\ HasBundle /\ persona = "Fitness"
    /\ TotalTrips("Monument") = 10
    /\ TotalTrips("Hyde Park") = 4
    /\ \E i \in 1..Len(result.opportunity_stations) :
        /\ result.opportunity_stations[i][1] = "Monument"
        /\ result.opportunity_stations[i][2].trips = 1
    /\ "Hyde Park" \notin OpportunitySet

\* ========================================================================
\* SpecOpportunity: the statistics of a dataset with enough trips per station
\* for the opportunity rating.  The DataFrame is built station by station,
\* with or without its four coordinate columns, and handed to
\* compute_marketing_stats.
\* ========================================================================

\* The coordinate columns.
CoordinateColumns == {"start_lat", "start_lon", "end_lat", "end_lon"}

\* The trips that start at one station: fitness trips of the persona Fitness
\* recorded at the latitude lat, then commuters trips of the persona Morning
\* Commuter recorded at the latitude lat2, all to the station e.
StationTrips(s, lat, lat2, lon, fitness, commuters, e) ==
    << [copies |-> fitness,
        trip |-> StatsTrip("Fitness", s, lat, lon, e, Num(7), Num(17),
                           DateTime(7, 5, 17), Num(Minutes(50)))],
       [copies |-> commuters,
        trip |-> StatsTrip("Morning Commuter", s, lat2, lon, e, Num(7), Num(17),
                           DateTime(1, 0, 8), Num(Minutes(10)))] >>

\* The stations of the sample.  Bloomsbury has no recorded coordinates, Hyde
\* Park and Knightsbridge are recorded at the same coordinates, Monument at
\* two latitudes, and Canary Wharf has 8 trips.
OpportunityBlocks ==
    << StationTrips("Bloomsbury", NaN, NaN, NaN, 4, 6, "Canary Wharf"),
       StationTrips("Canary Wharf", Num(7), Num(7), Num(17), 8, 0, "Monument"),
       StationTrips("Hyde Park", Num(4), Num(4), Num(14), 7, 7, "Canary Wharf"),
       StationTrips("Knightsbridge", Num(4), Num(4), Num(14), 5, 8, "Canary Wharf"),
       StationTrips("Monument", Num(1), Num(9), Num(11), 9, 21, "Canary Wharf"),
       StationTrips("Pimlico", Num(2), Num(2), Num(12), 5, 5, "Canary Wharf"),
       StationTrips("Southwark", Num(5), Num(5), Num(15), 8, 7, "Canary Wharf") >>

\* The row r of a DataFrame that has only the columns cols.
ProjectStats(r, cols) == [c \in DOMAIN r |-> IF c \in cols THEN r[c] ELSE Absent]

\* The rows of the trips of station b.
StationRows(b) ==
    LET blk == OpportunityBlocks[b]
        all == [j \in 1..blk[1].copies |-> blk[1].trip]
               \o [j \in 1..blk[2].copies |-> blk[2].trip]
    IN  [j \in 1..Len(all) |-> [all[j] EXCEPT !.rental_id = RentalId(b, j)]]

InitOpportunity ==
    /\ df \in {Frame(StatsColumns, <<>>), Frame(StatsColumns \ CoordinateColumns, <<>>)}
    /\ persona = "pending"
    /\ result = NoResult
    /\ row = NoRow
    /\ used = NoUse
    /\ earlier = NoCalls
    /\ generator = NoGenerator
    /\ session = NoSession
    /\ layer = NoLayer

\* The caller loads the trips of one more station into the DataFrame.
AddStationTrips ==
    /\ result.status = "none"
    /\ \E b \in 1..Len(OpportunityBlocks) :
        /\ LastBlock(df) < b
        /\ df' = [df EXCEPT !.rows =
                    @ \o [j \in 1..Len(StationRows(b)) |->
                            ProjectStats(StationRows(b)[j], df.columns)]]
    /\ UNCHANGED <<persona, result, row, used, earlier, generator, session, layer>>

NextOpportunity == AddStationTrips \/ ComputeStats

SpecOpportunity == InitOpportunity /\ [][NextOpportunity]_vars

\* The start stations of the whole dataset with at least 10 trips.
Eligible ==
    {n \in {df.rows[i].start_station_name : i \in 1..Len(df.rows)} : TotalTrips(n) >= 10}

\* The number of selected trips that start at station n.
PersonaTrips(n) == Cardinality({i \in Selected : df.rows[i].start_station_name = n})

\* relative_concentration of station x is above that of station y: both are
\* (persona trips / total trips * 100) / (selected / all * 100), with the
\* same divisor.
MoreConcentrated(x, y) ==
    PersonaTrips(x) * TotalTrips(y) > PersonaTrips(y) * TotalTrips(x)

\* C21: for a filter other than "ALL", opportunity_stations holds
\* min(5, number of eligible stations) eligible stations, in the descending
\* order of relative_concentration = (persona trips / total trips * 100) /
\* (selected trips / all trips * 100); no eligible station left out has a
\* higher relative_concentration than a station selected, whatever its
\* number of persona trips.
C21_TopByRelativeConcentration ==
    (HasBundle /\ persona # "ALL") =>
        LET opp == result.opportunity_stations
        IN  /\ Len(opp) = Min(5, Cardinality(Eligible))
            /\ Cardinality(OpportunitySet) = Len(opp)
            /\ OpportunitySet \subseteq Eligible
            /\ \A i \in 1..Len(opp) :
                /\ opp[i][2].trips = PersonaTrips(opp[i][1])
                /\ opp[i][2].concentration.num * TotalTrips(opp[i][1]) * Cardinality(Selected)
                    = PersonaTrips(opp[i][1]) * Len(df.rows) * opp[i][2].concentration.den
                /\ opp[i][2].persona_pct.num * TotalTrips(opp[i][1])
                    = PersonaTrips(opp[i][1]) * 100 * opp[i][2].persona_pct.den
            /\ \A i, j \in 1..Len(opp) : i < j => ~MoreConcentrated(opp[j][1], opp[i][1])
            /\ \A x \in Eligible \ OpportunitySet : \A y \in OpportunitySet :
                ~MoreConcentrated(x, y)

\* C21 witness: six stations are eligible for the persona Fitness; Monument,
\* with the most Fitness trips, is left out, and Bloomsbury, with the fewest,
\* is selected.
C21_Witness ==
    /\ HasBundle /\ persona = "Fitness"
    /\ Cardinality(Eligible) = 6
    /\ Len(result.opportunity_stations) = 5
    /\ "Monument" \in Eligible \ OpportunitySet
    /\ "Bloomsbury" \in OpportunitySet
    /\ \A n \in OpportunitySet : PersonaTrips(n) < PersonaTrips("Monument")

\* The positions of the trips of the whole dataset that start at station n
\* with both start coordinates recorded.
StartKnown(n) ==
    {i \in 1..Len(df.rows) :
        /\ df.rows[i].start_station_name = n
        /\ IsNum(df.rows[i].start_lat) /\ IsNum(df.rows[i].start_lon)}

\* C22: every station of opportunity_stations_with_coords is a station of
\* opportunity_stations; an opportunity station with a recorded start
\* coordinate has one entry, with the one (lat, lon) pair of its first trip
\* that has it, also when it shares the coordinates with another station or
\* has several recorded coordinates; an opportunity station without any has
\* no entry.
C22_OpportunityCoords ==
    (HasBundle /\ persona # "ALL") =>
        LET coords == result.opportunity_stations_with_coords
            Entries(n) == {j \in 1..Len(coords) : coords[j][1] = n}
        IN  /\ \A j \in 1..Len(coords) : coords[j][1] \in OpportunitySet
            /\ \A n \in OpportunitySet :
                IF StartKnown(n) = {} THEN Entries(n) = {}
                ELSE /\ Cardinality(Entries(n)) = 1
                     /\ \A j \in Entries(n) :
                         /\ coords[j][2].kind = "number"
                         /\ coords[j][2].lat = <<df.rows[Least(StartKnown(n))].start_lat>>
                         /\ coords[j][2].lon = <<df.rows[Least(StartKnown(n))].start_lon>>

\* C23: whether the coordinate fields are null in some or all trips or are
\* absent from the dataset, compute_stats on a selection that is not empty
\* does not fail: it returns a bundle without error key that has trip_count,
\* the top stations, the corridors and the time histograms.
C23_MissingCoordinatesNeverFail ==
    (StatsDone /\ Selected # {}) =>
        /\ result.status = "returned"
        /\ "error" \notin result.keys
        /\ {"trip_count", "top_start_stations", "top_end_stations",
            "top_travel_corridors", "trips_by_hour", "trips_by_day_of_week"}
                \subseteq result.keys
        /\ result.trip_count = Cardinality(Selected)

\* ------------------------------------------------ repeated statistics calls
(***************************************************************************)
(* SpecTwice: the dashboard reruns compute_marketing_stats on the dataset  *)
(* it holds.  Each call is recorded in 'earlier' with the DataFrame and    *)
(* the filter it was given and the result it returned; 'df' is the         *)
(* caller's DataFrame as the call leaves it.                               *)
(***************************************************************************)

\* Largest number of calls of compute_marketing_stats on one dataset.
MaxCalls == 2

\* A variant of InputAfterStats that narrows the caller's DataFrame to the
\* selection instead of working on a copy.
InputAfterStatsFiltered(d, p) == [d EXCEPT !.rows = FilterRows(d, p)]

\* The caller's DataFrame after the call: full_df = df.copy() and
\* df = df[...].copy() rebind local names to new frames, and every later
\* statement works on those.
InputAfterStats(d, p) == d

\* The values the three sort_values calls are given: the station-name
\* columns of the selection, in row order.
SortInputs(d, p) ==
    LET R == IF p # "ALL" /\ "persona" \notin d.columns THEN <<>> ELSE FilterRows(d, p)
    IN  [starts |-> [i \in 1..Len(R) |-> R[i].start_station_name],
         ends |-> [i \in 1..Len(R) |-> R[i].end_station_name]]

\* sort_values is a function of its input: a call that sorts the values an
\* earlier call sorted returns them in the order the earlier call did.
Repeatable(calls, d, p, r) ==
    \A i \in 1..Len(calls) :
        LET c == calls[i]
            before == SortInputs(c.df, c.persona)
            now == SortInputs(d, p)
        IN  /\ before.starts = now.starts
                => c.result.top_start_stations = r.top_start_stations
            /\ before.ends = now.ends
                => c.result.top_end_stations = r.top_end_stations
            /\ before = now
                => c.result.top_travel_corridors = r.top_travel_corridors

\* stats = compute_marketing_stats(df_for_analysis, selected_persona), on a
\* rerun of the dashboard.
CallStats ==
    /\ Len(df.rows) > 0
    /\ Len(earlier) < MaxCalls
    /\ \E p \in PersonaFilters :
        \E r \in compute_marketing_stats(df, p) :
            /\ Repeatable(earlier, df, p, r)
            /\ persona' = p
            /\ result' = r
            /\ earlier' = Append(earlier, [df |-> df, persona |-> p, result |-> r])
            /\ df' = InputAfterStats(df, p)
    /\ UNCHANGED <<row, used, generator, session, layer>>

\* The blocks of SampleBlocks the reruns are followed on: among them the
\* start stations Hyde Park and Pimlico tie on four trips and Southwark and
\* Knightsbridge on three.
RerunBlocks == {2, 3, 6, 7, 8, 9}

\* The caller loads the trips of one more block before the first call.
LoadTrips ==
    /\ earlier = NoCalls
    /\ \E b \in RerunBlocks :
        /\ LastBlock(df) < b
        /\ df' = [df EXCEPT !.rows = @ \o BlockRows(b)]
    /\ UNCHANGED <<persona, result, row, used, earlier, generator, session, layer>>

NextTwice == LoadTrips \/ CallStats

SpecTwice == InitStats /\ [][NextTwice]_vars

MaxClassifyCalls == 3

\* The n_clusters values the calls are made with.
ClusterCounts == {2, 3}

\* The DataFrames that are classified: two trips with distinct features,
\* three trips two of which share their features, and a single trip.
ClassifyFrames ==
    LET cols == {"rental_id", "start_date", "duration_minutes", "hour",
                 "is_weekend", "is_weekday"}
        Rows(ids) == {r \in SampleTrips : r.rental_id \in ids}
        Sorted(ids) ==
            LET Place(n) == Cardinality({m \in ids : m <= n})
            IN  [i \in 1..Cardinality(ids) |->
                    Project(CHOOSE r \in Rows(ids) : Place(r.rental_id) = i, cols)]
    IN  {Frame(cols, Sorted(ids)) : ids \in {{2, 4}, {1, 3, 7}, {2}}}

\* PersonaGenerator(n_clusters=k)
NewGenerator(k) == [n_clusters |-> k, scaler |-> <<>>, kmeans |-> "None"]

\* A variant of FitTransform that fits the scaler on the first features it
\* is given and keeps that fit afterwards.
FitTransformKeepFit(gen, X) ==
    [fit |-> IF gen.scaler = <<>> THEN X ELSE gen.scaler, points |-> X]

\* X = self.scaler.fit_transform(features): the scaler forgets an earlier
\* fit, takes mean and variance from features and transforms features with
\* them.  The scaled matrix is held as the features and the features they
\* were scaled by.
FitTransform(gen, X) == [fit |-> X, points |-> X]

\* The features never reached the scaler.
NotScaled == [fit |-> <<>>, points |-> <<>>]

\* The matrix handed to KMeans by generator gen for DataFrame d.
ScaledFeatures(gen, d) ==
    IF NoDurationColumn(d) \/ MissingColumns(d) # {} THEN NotScaled
    ELSE FitTransform(gen, FillNaMean(Features(d)))

\* The generator after assign_persona_clustering(d): the scaler holds the
\* fit of the call, and self.kmeans the model constructed in it.
GeneratorAfter(gen, d) ==
    LET X == ScaledFeatures(gen, d)
    IN  IF X = NotScaled THEN gen
        ELSE [gen EXCEPT !.scaler = X.fit, !.kmeans = "KMeans"]

\* df_work = df.copy() and df_result = df.copy(): the caller's DataFrame
\* after a classification call.
InputAfterClassify(d) == d

\* KMeans(random_state=42).fit_predict is a function of the matrix and of
\* n_clusters: a call that clusters a matrix an earlier call clustered, with
\* the same n_clusters, returns the labels the earlier call did.
SameLabels(calls, X, k, r) ==
    \A i \in 1..Len(calls) :
        (calls[i].strategy = "clustering" /\ calls[i].scaled = X /\ calls[i].k = k)
            => calls[i].result.cluster = r.cluster

Call(d, strategy, k, X, r) ==
    [df |-> d, strategy |-> strategy, k |-> k, scaled |-> X, result |-> r,
     after |-> InputAfterClassify(d)]

InitClassify ==
    /\ df \in ClassifyFrames
    /\ persona = "pending"
    /\ result = NoResult
    /\ row = NoRow
    /\ used = NoUse
    /\ earlier = NoCalls
    /\ generator = NoGenerator
    /\ session = NoSession
    /\ layer = NoLayer

\* The caller turns to another DataFrame.
SelectFrame ==
    /\ Len(earlier) < MaxClassifyCalls
    /\ df' \in ClassifyFrames \ {df}
    /\ UNCHANGED <<row, persona, used, result, earlier, generator, session, layer>>

\* generator = PersonaGenerator(n_clusters=k)
Construct ==
    /\ generator = NoGenerator
    /\ \E k \in ClusterCounts : generator' = NewGenerator(k)
    /\ UNCHANGED <<row, persona, used, df, result, earlier, session, layer>>

\* PersonaGenerator.add_persona_column(df, use_clustering, n_clusters=k): the
\* classmethod works on a generator of its own, which is dropped on return.
ClassifyWithNewGenerator ==
    /\ Len(earlier) < MaxClassifyCalls
    /\ \E k \in ClusterCounts, use_clustering \in BOOLEAN :
        \E r \in add_persona_column(df, use_clustering, k) :
            LET X == IF use_clustering /\ ~InvalidInput(df)
                     THEN ScaledFeatures(NewGenerator(k), df) ELSE NotScaled
                strategy == IF use_clustering THEN "clustering" ELSE "rule_based"
            IN  /\ SameLabels(earlier, X, k, r)
                /\ result' = r
                /\ earlier' = Append(earlier, Call(df, strategy, k, X, r))
                /\ df' = InputAfterClassify(df)
    /\ UNCHANGED <<row, persona, used, generator, session, layer>>

\* generator.assign_persona_clustering(df), on the generator the caller
\* holds.
ClassifyWithSameGenerator ==
    /\ Len(earlier) < MaxClassifyCalls
    /\ generator # NoGenerator
    /\ \E r \in assign_persona_clustering(df, generator.n_clusters) :
        LET X == ScaledFeatures(generator, df)
        IN  /\ SameLabels(earlier, X, generator.n_clusters, r)
            /\ result' = r
            /\ earlier' = Append(earlier, Call(df, "clustering", generator.n_clusters, X, r))
            /\ generator' = GeneratorAfter(generator, df)
            /\ df' = InputAfterClassify(df)
    /\ UNCHANGED <<row, persona, used, session, layer>>

NextClassify ==
    SelectFrame \/ Construct \/ ClassifyWithNewGenerator \/ ClassifyWithSameGenerator

SpecClassify == InitClassify /\ [][NextClassify]_vars

RuleBasedMethod == "Rule-Based (Simple)"

KMeansMethod == "K-Means Clustering (Advanced)"

\* The options of the sidebar radio, the first being its default.
Methods == {RuleBasedMethod, KMeansMethod}

\* DataFrames as clean_bike_data returns them: the query's columns with
\* duration_minutes derived from duration.  Five trips with distinct
\* features, three trips, and no trip left.
CleanedFrames ==
    LET cols == {"rental_id", "start_date", "duration", "duration_minutes"}
        Rows(n) == [i \in 1..n |->
                      Project(CHOOSE r \in SampleTrips : r.rental_id = i, cols)]
    IN  {Frame(cols, Rows(n)) : n \in {0, 3, 5}}

\* What load_bike_data and clean_bike_data give: nothing (None or an empty
\* DataFrame), an exception, or a cleaned DataFrame.
Loads ==
    {[kind |-> "empty", frame |-> NoneFrame], [kind |-> "raises", frame |-> NoneFrame]}
    \cup {[kind |-> "frame", frame |-> f] : f \in CleanedFrames}

\* pd.to_datetime(df['start_date']) raises on a value it cannot parse.
DeriveRaises(d) ==
    "start_date" \in d.columns /\ \E i \in 1..Len(d.rows) : d.rows[i].start_date.t = "bad"

\* The columns the K-Means branch derives before labelling.
DeriveColumns(d) ==
    LET dated == "start_date" \in d.columns
        minutes == "duration_minutes" \notin d.columns /\ "duration" \in d.columns
    IN  Frame(d.columns \cup (IF dated THEN {"hour", "is_weekend", "is_weekday"} ELSE {})
                        \cup (IF minutes THEN {"duration_minutes"} ELSE {}),
              [i \in 1..Len(d.rows) |->
                  LET r == d.rows[i]
                  IN  [r EXCEPT
                        !.hour = IF dated THEN CoerceHour(r.start_date) ELSE @,
                        !.is_weekend = IF dated THEN CoerceWeekend(r.start_date) ELSE @,
                        !.is_weekday = IF dated THEN CoerceWeekday(r.start_date) ELSE @,
                        !.duration_minutes = IF minutes THEN DivBy(r.duration, 60) ELSE @]])

\* An exception raised inside the try block.
Raised == [NoResult EXCEPT !.status = "raised"]

\* The conditional persona generation: what the branch taken for the selected
\* method gives for the cleaned DataFrame d.
GeneratePersonas(method, d) ==
    IF method = RuleBasedMethod THEN add_persona_column(d, TRUE, DefaultK)
    ELSE IF DeriveRaises(d) THEN {Raised}
    ELSE add_persona_column(DeriveColumns(d), TRUE, DefaultK)

\* A variant of Invalidate that keeps the stored dataset.
InvalidateNever(s) == s

\* if st.session_state.last_method != persona_method:
\*     st.session_state.df = None
Invalidate(s) ==
    IF s.last_method # s.persona_method
    THEN [s EXCEPT !.df = NoResult, !.source = NoneFrame, !.cleared = TRUE]
    ELSE s

\* The body of the load button's if statement, for what was loaded and what
\* the persona generation gave.
LoadData(s, loaded, labelled) ==
    IF loaded.kind = "raises" THEN s
    ELSE IF loaded.kind = "empty" THEN [s EXCEPT !.df = NoResult, !.source = NoneFrame]
    ELSE IF labelled.status # "ok" THEN s
    ELSE [s EXCEPT !.df = labelled, !.source = loaded.frame,
                   !.last_method = s.persona_method, !.cleared = FALSE]

\* if st.session_state.df is not None: ... compute_marketing_stats(...)
Display(s) == [s EXCEPT !.analysed = (s.df # NoResult)]

\* One run of the script.  The first run of a session shows the radio at its
\* default and cannot have the button clicked.
Rerun ==
    /\ \E method \in Methods, clicked \in BOOLEAN, loaded \in Loads :
        /\ session = NoSession => (method = RuleBasedMethod /\ ~clicked)
        /\ LET selected == [session EXCEPT !.persona_method = method]
               checked == Invalidate(selected)
           IN  IF clicked
               THEN \E labelled \in (IF loaded.kind = "frame"
                                     THEN GeneratePersonas(method, loaded.frame)
                                     ELSE {Raised}) :
                        session' = Display(LoadData(checked, loaded, labelled))
               ELSE session' = Display(checked)
    /\ UNCHANGED <<row, persona, used, df, result, earlier, generator, layer>>

InitDashboard ==
    /\ df = NoneFrame
    /\ persona = "pending"
    /\ result = NoResult
    /\ row = NoRow
    /\ used = NoUse
    /\ earlier = NoCalls
    /\ generator = NoGenerator
    /\ session = NoSession
    /\ layer = NoLayer

NextDashboard == Rerun

SpecDashboard == InitDashboard /\ [][NextDashboard]_vars

\* C26: a dataset stored while "Rule-Based (Simple)" is selected carries the
\* personas of the rule-based strategy, row by row, and no k-means cluster
\* labels; cluster labels are found only under "K-Means Clustering
\* (Advanced)".
C26_RuleBasedMethodUsesRules ==
    (session.df # NoResult /\ session.last_method = RuleBasedMethod)
        => /\ session.df.persona = ApplyRuleBased(session.source)
           /\ session.df.cluster = <<>>

\* C27: a dataset held at the display step was loaded under the method now
\* selected; and once a method change has cleared the dataset, none is held
\* and none is analysed until a load succeeds.
C27_DatasetMatchesMethod ==
    /\ session.df # NoResult => session.last_method = session.persona_method
    /\ session.analysed <=> session.df # NoResult
    /\ session.cleared => (session.df = NoResult /\ ~session.analysed)

\* The user is back on the method of the last successful load, after a
\* change of method cleared the dataset, and nothing is held.
C27_Witness ==
    /\ session.cleared
    /\ session.last_method = KMeansMethod
    /\ session.persona_method = KMeansMethod
    /\ session.df = NoResult

\* ------------------------------------------- the persona footprint layer
(***************************************************************************)
(* SpecFootprint: create_prescriptive_map is handed a list of station      *)
(* dictionaries and draws the footprint layer: the stations whose count    *)
(* reaches the threshold of _get_top_20_percent_threshold.  A station is   *)
(* held by its count; like the records of persona_stations_with_coords,    *)
(* every station has the keys name, lat, lon and count.                    *)
(***************************************************************************)

\* Largest number of stations in the list.
MaxStations == 5

\* Largest count of a station.
MaxCount == 6

\* The keys of a station dictionary.
StationKeys == {"name", "lat", "lon", "count"}

\* The station lists: any counts in any order, the empty list included.
StationLists ==
    UNION {[1..n -> {[keys |-> StationKeys, count |-> c] : c \in 1..MaxCount}] :
              n \in 0..MaxStations}

\* station.get(count_key, 0)
CountOfStation(station, count_key) ==
    IF count_key \in station.keys THEN station.count ELSE 0

\* 'count' if 'count' in sample_station else 'usage' if 'usage' in
\* sample_station else 'usage_count'
CountKey(station_data) ==
    LET sample_station == IF Len(station_data) > 0 THEN station_data[1].keys ELSE {}
    IN  IF "count" \in sample_station THEN "count"
        ELSE IF "usage" \in sample_station THEN "usage" ELSE "usage_count"

RECURSIVE SortReverse(_)
\* counts.sort(reverse=True)
SortReverse(counts) ==
    IF Len(counts) = 0 THEN <<>>
    ELSE LET rest == SortReverse(Tail(counts))
             x == Head(counts)
             before == Cardinality({i \in 1..Len(rest) : rest[i] >= x})
         IN  SubSeq(rest, 1, before) \o <<x>> \o SubSeq(rest, before + 1, Len(rest))

\* min(len(counts) - 1, int(len(counts) * 0.2)), a 0-based index; the float
\* product n * 0.2 truncates to n \div 5 for the lengths of a station list.
TopTwentyIndex(n) == Min(n - 1, n \div 5)

\* _get_top_20_percent_threshold(station_data, count_key)
get_top_20_percent_threshold(station_data, count_key) ==
    IF Len(station_data) = 0 THEN 0
    ELSE LET counts == SortReverse([i \in 1..Len(station_data) |->
                                       CountOfStation(station_data[i], count_key)])
             top_20_index == TopTwentyIndex(Len(counts))
         IN  IF top_20_index >= 0 THEN counts[top_20_index + 1] ELSE 0

\* The stations of the footprint layer, by their position in the list.
FootprintShown(station_data, count_key, threshold) ==
    {i \in 1..Len(station_data) :
        /\ {"lat", "lon"} \subseteq station_data[i].keys
        /\ CountOfStation(station_data[i], count_key) >= threshold}

InitFootprint ==
    /\ layer \in {[NoLayer EXCEPT !.station_data = s] : s \in StationLists}
    /\ df = NoneFrame
    /\ persona = "pending"
    /\ result = NoResult
    /\ row = NoRow
    /\ used = NoUse
    /\ earlier = NoCalls
    /\ generator = NoGenerator
    /\ session = NoSession

\* The footprint layer of create_prescriptive_map(...,
\* persona_stations_data=station_data); with an empty list no layer is drawn
\* and the threshold is what the helper returns for it.
DrawFootprint ==
    /\ layer.status = "none"
    /\ LET count_key == CountKey(layer.station_data)
           threshold == get_top_20_percent_threshold(layer.station_data, count_key)
       IN  layer' = [layer EXCEPT
                        !.status = "drawn",
                        !.threshold = threshold,
                        !.shown = IF Len(layer.station_data) > 0
                                  THEN FootprintShown(layer.station_data, count_key, threshold)
                                  ELSE {}]
    /\ UNCHANGED <<row, persona, used, df, result, earlier, generator, session>>

NextFootprint == DrawFootprint

SpecFootprint == InitFootprint /\ [][NextFootprint]_vars

\* ceil(0.2 * n)
CeilFifth(n) == (n + 4) \div 5

\* The counts of the list are pairwise distinct.
DistinctCounts(station_data) ==
    \A i, j \in 1..Len(station_data) :
        i # j => station_data[i].count # station_data[j].count

\* C28: for an empty list the threshold is 0; for a list of n > 0 stations
\* at least one station reaches the threshold and, the counts being pairwise
\* distinct, at most ceil(0.2 * n) stations do.
C28_TopTwentyPercent ==
    layer.status = "drawn" =>
        LET n == Len(layer.station_data)
        IN  /\ n = 0 => layer.threshold = 0
            /\ n > 0 => Cardinality(layer.shown) >= 1
            /\ (n > 0 /\ DistinctCounts(layer.station_data))
                  => Cardinality(layer.shown) <= CeilFifth(n)

\* ------------------------------------------------- labels by day type
\* The claim below is on a single row, under SpecRow.

\* The row has been classified on a known duration and a known hour.
ClassifiedKnown == persona # "pending" /\ IsNum(used.duration) /\ IsNum(used.hour)

\* Exactly one day flag of the row is set: the weekend flag, the weekday flag.
WeekendTrip == Truthy(row.is_weekend) /\ ~Truthy(row.is_weekday)

WeekdayTrip == Truthy(row.is_weekday) /\ ~Truthy(row.is_weekend)

\* C29: with duration and hour known, a weekend trip is labelled Weekend
\* Explorer or Tourist/Long Leisure, and a weekday trip is never labelled
\* Weekend Explorer.
C29_LabelsByDayType ==
    /\ (ClassifiedKnown /\ WeekendTrip)
          => persona \in {"Weekend Explorer", "Tourist/Long Leisure"}
    /\ (ClassifiedKnown /\ WeekdayTrip) => persona # "Weekend Explorer"

\* A weekend trip that none of the persona rules and edge-case rules matches,
\* labelled Weekend Explorer by the else-chain.
C29_Witness ==
    /\ ClassifiedKnown
    /\ WeekendTrip
    /\ PrimaryRules(used.duration, used.hour, used.is_weekend, used.is_weekday) = NoMatch
    /\ EdgeCaseRules(used.duration, used.hour, used.is_weekend, used.is_weekday) = NoMatch
    /\ Lt(used.hour, 12)
    /\ persona = "Weekend Explorer"

====
